---- MODULE Spec2Model ----
(***************************************************************************)
(* Model of the Cisco SMA connector (ciscosma_connector.py).               *)
(*                                                                         *)
(* Python values are tagged records [ty, v].  A Python str is a sequence   *)
(* of tokens: a token is a chunk of characters the code never cuts, so     *)
(* that lower(), "in", split, strip and re.sub are computed on the         *)
(* sequence; credentials are tokenised by character for base64.  A dict    *)
(* is a function from key names to values.  A message built by an          *)
(* f-string is the tuple <<template, argument, ...>>.                      *)
(***************************************************************************)
EXTENDS Integers, Sequences, FiniteSets, TLC

VARIABLES
    _base_url,        \* self._base_url
    _username,        \* self._username
    _password,        \* self._password
    _verify,          \* self._verify
    initialized,      \* initialize() has run on this instance
    action,           \* get_action_identifier() of the last handle_action call
    param,            \* the caller's param dict after the last call
    action_results,   \* envelopes added by add_action_result in the last call
    http_log,         \* requests.request calls of the last call, with what came back
    ret,              \* what the last handle_action call returned
    exc,              \* the exception that left the last handle_action call
    vault_log,        \* Vault.add_attachment calls of the last call
    tmp_files         \* temporary files of the connector that exist

vars == <<_base_url, _username, _password, _verify, initialized, action, param,
          action_results, http_log, ret, exc, vault_log, tmp_files>>

----------------------------------------------------------------------------
(* Python values *)

None == [ty |-> "NoneType", v |-> "None"]
PStr(toks) == [ty |-> "str", v |-> toks]
PS(tok) == [ty |-> "str", v |-> <<tok>>]
PInt(n) == [ty |-> "int", v |-> n]
PBool(b) == [ty |-> "bool", v |-> b]
PList(items) == [ty |-> "list", v |-> items]
PDict(f) == [ty |-> "dict", v |-> f]
EmptyMap == [k \in {} |-> None]

\* A test that only asks whether the value is None
NotNone(x) == x.ty # "NoneType"

\* bool(x)
Truthy(x) ==
    CASE x.ty = "NoneType" -> FALSE
      [] x.ty = "str" -> x.v # <<>>
      [] x.ty = "int" -> x.v # 0
      [] x.ty = "bool" -> x.v
      [] x.ty = "list" -> x.v # <<>>
      [] x.ty = "dict" -> DOMAIN x.v # {}
      [] OTHER -> TRUE

\* d.get(k, default) on the mapping of a dict
MapGet(d, k, default) == IF k \in DOMAIN d THEN d[k] ELSE default

\* d[k] = x on the mapping of a dict
MapSet(d, k, x) == [n \in DOMAIN d \cup {k} |-> IF n = k THEN x ELSE d[n]]

\* d.update(e)
MapUpdate(d, e) == [n \in DOMAIN d \cup DOMAIN e |-> IF n \in DOMAIN e THEN e[n] ELSE d[n]]

\* needle in hay, on token sequences
Contains(needle, hay) ==
    \E i \in 1..(Len(hay) - Len(needle) + 1) :
        SubSeq(hay, i, i + Len(needle) - 1) = needle

\* str.lower() of one token (the tokens with upper-case letters the model uses)
LowerTok(t) ==
    CASE t = "Application/JSON" -> "application/json"
      [] t = "Safelist" -> "safelist"
      [] t = "BLOCKLIST" -> "blocklist"
      [] t = "charset=UTF-8" -> "charset=utf-8"
      [] OTHER -> t

\* str.lower()
Lower(toks) == [i \in 1..Len(toks) |-> LowerTok(toks[i])]

----------------------------------------------------------------------------
(* phantom status values *)

APP_SUCCESS == "APP_SUCCESS"
APP_ERROR == "APP_ERROR"
NO_RETURN == "NO_RETURN"

\* phantom.is_fail
is_fail(status) == status # APP_SUCCESS

(* The Result Envelope (ActionResult).  set_count counts set_status calls. *)
ActionResult ==
    [status |-> APP_ERROR, message |-> <<"">>, data |-> <<>>, summary |-> EmptyMap,
     set_count |-> 0]

set_status(ar, status, message) ==
    [ar EXCEPT !.status = status, !.message = message, !.set_count = @ + 1]

add_data(ar, item) == [ar EXCEPT !.data = Append(@, item)]

update_summary(ar, summary) == [ar EXCEPT !.summary = MapUpdate(@, summary)]

----------------------------------------------------------------------------
(* ciscosma_consts.py *)

CISCOSMA_VALID_ORDER_BY == <<PS("from_address"), PS("to_address"), PS("subject")>>
CISCOSMA_VALID_ORDER_DIRECTIONS == <<PS("asc"), PS("desc")>>
CISCOSMA_VALID_FILTER_OPERATORS ==
    <<PS("contains"), PS("is"), PS("begins_with"), PS("ends_with"), PS("does_not_contain")>>
CISCOSMA_VALID_FILTER_OPERATORS_REPORT == <<PS("begins_with"), PS("is")>>
CISCOSMA_VALID_SUBJECT_FILTERS ==
    <<PS("contains"), PS("starts_with"), PS("ends_with"), PS("matches_exactly"),
      PS("does_not_contain"), PS("does_not_start_with"), PS("does_not_end_with"),
      PS("does_not_match")>>
CISCOSMA_VALID_SIZE_FILTERS == <<PS("range"), PS("less_than"), PS("more_than")>>
CISCOSMA_VALID_QUARANTINE_ORDER_BY ==
    <<PS("sender"), PS("subject"), PS("received"), PS("scheduledExit"), PS("size")>>
CISCOSMA_VALID_LIST_TYPES == <<PS("safelist"), PS("blocklist")>>
CISCOSMA_VALID_LIST_VIEW_BY == <<PS("sender"), PS("recipient")>>
CISCOSMA_VALID_LIST_ORDER_BY == <<PS("sender"), PS("recipient")>>
CISCOSMA_DEFAULT_LIST_LIMIT == 25
CISCOSMA_DEFAULT_LIST_OFFSET == 0

CISCOSMA_GET_TOKEN_ENDPOINT == <<"/sma/api/v2.0/login">>
CISCOSMA_GET_SUBSCRIPTION_ENDPOINT == <<"/sma/api/v2.0/config/logs/subscriptions">>
CISCOSMA_GET_MESSAGE_DETAILS_ENDPOINT == <<"/sma/api/v2.0/quarantine/messages", "/details">>
CISCOSMA_GET_MESSAGE_TRACKING_DETAILS_ENDPOINT == <<"/sma/api/v2.0/message-tracking/details">>
CISCOSMA_SEARCH_MESSAGES_ENDPOINT == <<"/sma/api/v2.0/quarantine/messages">>
CISCOSMA_SEARCH_TRACKING_MESSAGES_ENDPOINT == <<"/sma/api/v2.0/message-tracking/messages">>
CISCOSMA_RELEASE_MESSAGES_ENDPOINT == <<"/sma/api/v2.0/quarantine/messages">>
CISCOSMA_DELETE_MESSAGES_ENDPOINT == <<"/sma/api/v2.0/quarantine/messages">>
CISCOSMA_SAFELIST_ENDPOINT == <<"/sma/api/v2.0/quarantine/safelist">>
CISCOSMA_BLOCKLIST_ENDPOINT == <<"/sma/api/v2.0/quarantine/blocklist">>
CISCOSMA_REPORTING_ENDPOINT == <<"/sma/api/v2.0/reporting/">>
CISCOSMA_DOWNLOAD_ATTACHMENT_ENDPOINT == <<"/sma/api/v2.0/quarantine/messages", "/attachment">>

\* x in L, for a Python list L
InList(x, L) == \E i \in 1..Len(L) : L[i] = x

----------------------------------------------------------------------------
(* base64.b64encode(s.encode()).decode() *)

\* ord(c) of the characters credentials are made of
Ord(c) ==
    CASE c = "a" -> 97 [] c = "d" -> 100 [] c = "i" -> 105 [] c = "m" -> 109
      [] c = "n" -> 110 [] c = "o" -> 111 [] c = "p" -> 112 [] c = "s" -> 115
      [] c = "w" -> 119 [] c = ":" -> 58 [] c = "1" -> 49

\* str.encode(): the bytes of a string tokenised by character
Encode(toks) == [i \in 1..Len(toks) |-> Ord(toks[i])]

B64Alphabet ==
    <<"A", "B", "C", "D", "E", "F", "G", "H", "I", "J", "K", "L", "M", "N", "O", "P",
      "Q", "R", "S", "T", "U", "V", "W", "X", "Y", "Z", "a", "b", "c", "d", "e", "f",
      "g", "h", "i", "j", "k", "l", "m", "n", "o", "p", "q", "r", "s", "t", "u", "v",
      "w", "x", "y", "z", "0", "1", "2", "3", "4", "5", "6", "7", "8", "9", "+", "/">>

B64Char(sextet) == B64Alphabet[sextet + 1]

RECURSIVE b64encode(_)
b64encode(bytes) ==
    IF Len(bytes) = 0 THEN <<>>
    ELSE IF Len(bytes) = 1 THEN
        <<B64Char(bytes[1] \div 4), B64Char((bytes[1] % 4) * 16), "=", "=">>
    ELSE IF Len(bytes) = 2 THEN
        <<B64Char(bytes[1] \div 4), B64Char((bytes[1] % 4) * 16 + bytes[2] \div 16),
          B64Char((bytes[2] % 16) * 4), "=">>
    ELSE
        <<B64Char(bytes[1] \div 4), B64Char((bytes[1] % 4) * 16 + bytes[2] \div 16),
          B64Char((bytes[2] % 16) * 4 + bytes[3] \div 64), B64Char(bytes[3] % 64)>>
        \o b64encode(SubSeq(bytes, 4, Len(bytes)))

----------------------------------------------------------------------------
(* The remote API: what one requests.request call brings back *)

JSON_CT == <<"application/json">>
JSON_CT_UPPER == <<"Application/JSON", "; ", "charset=UTF-8">>
HTML_CT == <<"text/html">>
BINARY_CT == <<"application/octet-stream">>

BodyList == PS("{\"data\":[{\"mid\":1},{\"mid\":2}],\"meta\":{\"totalCount\":2}}")
BodyObj ==
    PS("{\"data\":{\"attributes\":{\"subject\":\"hi\"},\"totalCount\":1,\"action\":\"release\"}}")
BodyToken == PS("{\"error\":\"token expired\"}")
BodyNoDetails == PS("{\"data\":{\"attributes\":{\"quarantineDetails\":[]}}}")
BodyArray == PS("[1]")
BodyHtml == PS("<html>Bad Gateway</html>")
BodyB64 == PStr(<<"aGk=", "\n">>)

\* response.json(): the parsed value, or ValueError
JsonParse(text) ==
    CASE text = BodyList ->
            [ok |-> TRUE,
             value |-> PDict([data |-> PList(<<PDict([mid |-> PInt(1)]), PDict([mid |-> PInt(2)])>>),
                              meta |-> PDict([totalCount |-> PInt(2)])])]
      [] text = BodyObj ->
            [ok |-> TRUE,
             value |-> PDict([data |-> PDict([attributes |-> PDict([subject |-> PS("hi")]),
                                              totalCount |-> PInt(1),
                                              action |-> PS("release")])])]
      [] text = BodyToken ->
            [ok |-> TRUE, value |-> PDict([error |-> PS("token expired")])]
      [] text = BodyNoDetails ->
            [ok |-> TRUE,
             value |-> PDict([data |-> PDict([attributes |->
                                  PDict([quarantineDetails |-> PList(<<>>)])])])]
      [] text = BodyArray -> [ok |-> TRUE, value |-> PList(<<PInt(1)>>)]
      [] OTHER -> [ok |-> FALSE, value |-> None]

HttpResponse(status_code, headers, text) ==
    [ty |-> "Response", v |-> [status_code |-> status_code, headers |-> headers, text |-> text]]

Responses ==
    { HttpResponse(200, ("Content-Type" :> PStr(JSON_CT)), BodyList),
      HttpResponse(200, ("Content-Type" :> PStr(JSON_CT)), BodyObj),
      HttpResponse(200, ("Content-Type" :> PStr(JSON_CT_UPPER)), BodyObj),
      HttpResponse(200, ("Content-Type" :> PStr(JSON_CT)), BodyArray),
      HttpResponse(200, ("Content-Type" :> PStr(JSON_CT)), BodyToken),
      HttpResponse(200, ("Content-Type" :> PStr(JSON_CT)), BodyNoDetails),
      HttpResponse(200, ("Content-Type" :> PStr(JSON_CT)), BodyHtml),
      HttpResponse(200, ("Content-Type" :> PStr(BINARY_CT))
                         @@ ("Content-Disposition" :>
                                PStr(<<"attachment; ", "filename=", "\"", "a", ",", "b.txt", "\"">>))
                         @@ ("Content-Length" :> PS("4")), BodyB64),
      HttpResponse(200, ("Content-Type" :> PStr(BINARY_CT))
                         @@ ("Content-Disposition" :>
                                PStr(<<"attachment; ", "filename*=", "UTF-8", "''", "it", "'",
                                       "s.txt">>)), BodyB64),
      HttpResponse(200, EmptyMap, BodyObj),
      HttpResponse(201, ("Content-Type" :> PStr(JSON_CT)), BodyObj),
      HttpResponse(401, ("Content-Type" :> PStr(JSON_CT)), BodyToken),
      HttpResponse(500, ("Content-Type" :> PStr(JSON_CT)), BodyHtml),
      HttpResponse(404, ("Content-Type" :> PStr(HTML_CT)), BodyHtml) }

\* requests.exceptions.RequestException and its subclasses
RequestExceptions == {"ConnectionError", "Timeout"}

\* what requests.request does: a response, or an exception
Remotes ==
    [kind : {"response"}, response : Responses, exception : {"none"}]
    \cup [kind : {"raise"}, response : {None},
          exception : RequestExceptions \cup {"ValueError"}]

----------------------------------------------------------------------------
(* The HTTP executor and the authenticated request *)

\* One _make_rest_call call: the requests.request call it made, what the remote did,
\* and the (ret_val, payload) it returned with the message it left in the envelope
Exchange(method, url, headers, params, data, json, verify, remote, ret_val, payload, message) ==
    [method |-> method, url |-> url, headers |-> headers, params |-> params,
     data |-> data, json |-> json, verify |-> verify, remote |-> remote,
     ret_val |-> ret_val, payload |-> payload, message |-> message]

\* The result of a call: (ret_val, payload), the envelope and the requests sent
Called(ret_val, payload, ar, sent) ==
    [ret_val |-> ret_val, payload |-> payload, ar |-> ar, sent |-> sent]

\* Variant: every 2xx status is taken as success
Any2xxRestCall(endpoint, action_result, headers, params, data, json, method, remote) ==
    LET \* return ret_val, payload, with the envelope as ar
        Return(ret_val, payload, ar) ==
            Called(ret_val, payload, ar,
                   <<Exchange(method, endpoint, headers, params, data, json, _verify, remote,
                              ret_val, payload, ar.message)>>)
        \* return action_result.set_status(phantom.APP_ERROR, message), None
        Failed(message) ==
            Return(APP_ERROR, None, set_status(action_result, APP_ERROR, message))
        \* if response.status_code != 200: ... / return phantom.APP_SUCCESS, payload
        Checked(response, payload) ==
            IF response.v.status_code \notin 200..299 THEN
                Failed(<<"API call failed. Status code: {}. Response: {}",
                         PInt(response.v.status_code), response.v.text>>)
            ELSE Return(APP_SUCCESS, payload, action_result)
        \* try: resp_json = response.json() / except ValueError
        Parsed(response, resp_json) ==
            IF ~resp_json.ok THEN
                Failed(<<"Invalid JSON response from server: {}", response.v.text>>)
            ELSE Checked(response, resp_json.value)
        \* content_type = response.headers.get("Content-Type", "");
        \* if "application/json" in content_type: ... else: the raw response object
        Received(response) ==
            IF Contains(<<"application/json">>,
                        Lower(MapGet(response.v.headers, "Content-Type", PStr(<<>>)).v))
            THEN Parsed(response, JsonParse(response.v.text))
            ELSE Checked(response, response)
    IN  IF remote.kind = "raise" THEN
            IF remote.exception \in RequestExceptions THEN
                Failed(<<"Error connecting to server: {}", PS(remote.exception)>>)
            ELSE Failed(<<"Error making REST call: {}", PS(remote.exception)>>)
        ELSE Received(remote.response)

\* Variant: the raw response object is returned whatever the content type is
RawRestCall(endpoint, action_result, headers, params, data, json, method, remote) ==
    LET \* return ret_val, payload, with the envelope as ar
        Return(ret_val, payload, ar) ==
            Called(ret_val, payload, ar,
                   <<Exchange(method, endpoint, headers, params, data, json, _verify, remote,
                              ret_val, payload, ar.message)>>)
        \* return action_result.set_status(phantom.APP_ERROR, message), None
        Failed(message) ==
            Return(APP_ERROR, None, set_status(action_result, APP_ERROR, message))
        \* if response.status_code != 200: ... / return phantom.APP_SUCCESS, payload
        Checked(response, payload) ==
            IF response.v.status_code # 200 THEN
                Failed(<<"API call failed. Status code: {}. Response: {}",
                         PInt(response.v.status_code), response.v.text>>)
            ELSE Return(APP_SUCCESS, payload, action_result)
        \* the raw response object
        Received(response) == Checked(response, response)
    IN  IF remote.kind = "raise" THEN
            IF remote.exception \in RequestExceptions THEN
                Failed(<<"Error connecting to server: {}", PS(remote.exception)>>)
            ELSE Failed(<<"Error making REST call: {}", PS(remote.exception)>>)
        ELSE Received(remote.response)

\* Variant: the content type is compared without lower()
CaseSensitiveRestCall(endpoint, action_result, headers, params, data, json, method, remote) ==
    LET \* return ret_val, payload, with the envelope as ar
        Return(ret_val, payload, ar) ==
            Called(ret_val, payload, ar,
                   <<Exchange(method, endpoint, headers, params, data, json, _verify, remote,
                              ret_val, payload, ar.message)>>)
        \* return action_result.set_status(phantom.APP_ERROR, message), None
        Failed(message) ==
            Return(APP_ERROR, None, set_status(action_result, APP_ERROR, message))
        \* if response.status_code != 200: ... / return phantom.APP_SUCCESS, payload
        Checked(response, payload) ==
            IF response.v.status_code # 200 THEN
                Failed(<<"API call failed. Status code: {}. Response: {}",
                         PInt(response.v.status_code), response.v.text>>)
            ELSE Return(APP_SUCCESS, payload, action_result)
        \* try: resp_json = response.json() / except ValueError
        Parsed(response, resp_json) ==
            IF ~resp_json.ok THEN
                Failed(<<"Invalid JSON response from server: {}", response.v.text>>)
            ELSE Checked(response, resp_json.value)
        \* content_type = response.headers.get("Content-Type", "");
        \* if "application/json" in content_type: ... else: the raw response object
        Received(response) ==
            IF Contains(<<"application/json">>,
                        MapGet(response.v.headers, "Content-Type", PStr(<<>>)).v)
            THEN Parsed(response, JsonParse(response.v.text))
            ELSE Checked(response, response)
    IN  IF remote.kind = "raise" THEN
            IF remote.exception \in RequestExceptions THEN
                Failed(<<"Error connecting to server: {}", PS(remote.exception)>>)
            ELSE Failed(<<"Error making REST call: {}", PS(remote.exception)>>)
        ELSE Received(remote.response)

\* Variant: except Exception alone, so a network failure is not told apart
UnclassifiedRestCall(endpoint, action_result, headers, params, data, json, method, remote) ==
    LET \* return ret_val, payload, with the envelope as ar
        Return(ret_val, payload, ar) ==
            Called(ret_val, payload, ar,
                   <<Exchange(method, endpoint, headers, params, data, json, _verify, remote,
                              ret_val, payload, ar.message)>>)
        \* return action_result.set_status(phantom.APP_ERROR, message), None
        Failed(message) ==
            Return(APP_ERROR, None, set_status(action_result, APP_ERROR, message))
        \* if response.status_code != 200: ... / return phantom.APP_SUCCESS, payload
        Checked(response, payload) ==
            IF response.v.status_code # 200 THEN
                Failed(<<"API call failed. Status code: {}. Response: {}",
                         PInt(response.v.status_code), response.v.text>>)
            ELSE Return(APP_SUCCESS, payload, action_result)
        \* try: resp_json = response.json() / except ValueError
        Parsed(response, resp_json) ==
            IF ~resp_json.ok THEN
                Failed(<<"Invalid JSON response from server: {}", response.v.text>>)
            ELSE Checked(response, resp_json.value)
        \* content_type = response.headers.get("Content-Type", "").lower();
        \* if "application/json" in content_type: ... else: the raw response object
        Received(response) ==
            IF Contains(<<"application/json">>,
                        Lower(MapGet(response.v.headers, "Content-Type", PStr(<<>>)).v))
            THEN Parsed(response, JsonParse(response.v.text))
            ELSE Checked(response, response)
    IN  IF remote.kind = "raise" THEN
            Failed(<<"Error making REST call: {}", PS(remote.exception)>>)
        ELSE Received(remote.response)

_make_rest_call(endpoint, action_result, headers, params, data, json, method, remote) ==
    LET \* return ret_val, payload, with the envelope as ar
        Return(ret_val, payload, ar) ==
            Called(ret_val, payload, ar,
                   <<Exchange(method, endpoint, headers, params, data, json, _verify, remote,
                              ret_val, payload, ar.message)>>)
        \* return action_result.set_status(phantom.APP_ERROR, message), None
        Failed(message) ==
            Return(APP_ERROR, None, set_status(action_result, APP_ERROR, message))
        \* if response.status_code != 200: ... / return phantom.APP_SUCCESS, payload
        Checked(response, payload) ==
            IF response.v.status_code # 200 THEN
                Failed(<<"API call failed. Status code: {}. Response: {}",
                         PInt(response.v.status_code), response.v.text>>)
            ELSE Return(APP_SUCCESS, payload, action_result)
        \* try: resp_json = response.json() / except ValueError
        Parsed(response, resp_json) ==
            IF ~resp_json.ok THEN
                Failed(<<"Invalid JSON response from server: {}", response.v.text>>)
            ELSE Checked(response, resp_json.value)
        \* content_type = response.headers.get("Content-Type", "").lower();
        \* if "application/json" in content_type: ... else: the raw response object
        Received(response) ==
            IF Contains(<<"application/json">>,
                        Lower(MapGet(response.v.headers, "Content-Type", PStr(<<>>)).v))
            THEN Parsed(response, JsonParse(response.v.text))
            ELSE Checked(response, response)
    IN  IF remote.kind = "raise" THEN
            IF remote.exception \in RequestExceptions THEN
                Failed(<<"Error connecting to server: {}", PS(remote.exception)>>)
            ELSE Failed(<<"Error making REST call: {}", PS(remote.exception)>>)
        ELSE Received(remote.response)

\* "Basic " + base64(username:password), from the configuration of the instance
BasicAuth == PStr(<<"Basic ">> \o b64encode(Encode(_username.v \o <<":">> \o _password.v)))

DefaultHeaders ==
    ("Content-Type" :> PS("application/json")) @@ ("Accept" :> PS("application/json"))

\* "token" in message.lower(): of the texts of the model, only the body of the
\* 401 response mentions a token; message[1] is the template, the rest its arguments
MentionsToken(message) == \E i \in 2..Len(message) : message[i] = BodyToken

\* Variant: a failed request is issued a second time
RetryingRequest(action_result, endpoint, headers, params, data, json_data, method, remote) ==
    LET url == PStr(_base_url.v \o endpoint)
        headers1 == IF headers = None THEN DefaultHeaders ELSE headers.v
        headers2 == MapUpdate(headers1, "Authorization" :> BasicAuth)
        Again(r1, r2) ==
            IF is_fail(r2.ret_val) THEN Called(r2.ar.status, None, r2.ar, r1.sent \o r2.sent)
            ELSE Called(APP_SUCCESS, r2.payload, r2.ar, r1.sent \o r2.sent)
        Result(r) ==
            IF is_fail(r.ret_val) THEN
                Again(r, _make_rest_call(url, r.ar, PDict(headers2), params, data, json_data,
                                         method, remote))
            ELSE Called(APP_SUCCESS, r.payload, r.ar, r.sent)
    IN  Result(_make_rest_call(url, action_result, PDict(headers2), params, data, json_data,
                               method, remote))

\* Variant: a failure that mentions a token makes the connector log in and
\* issue the request once more
RefreshingRequest(action_result, endpoint, headers, params, data, json_data, method, remote) ==
    LET url == PStr(_base_url.v \o endpoint)
        headers1 == IF headers = None THEN DefaultHeaders ELSE headers.v
        headers2 == MapUpdate(headers1, "Authorization" :> BasicAuth)
        Again(r1, login, r2) ==
            IF is_fail(r2.ret_val) THEN
                Called(r2.ar.status, None, r2.ar, r1.sent \o login.sent \o r2.sent)
            ELSE Called(APP_SUCCESS, r2.payload, r2.ar, r1.sent \o login.sent \o r2.sent)
        Result(r) ==
            IF is_fail(r.ret_val) /\ MentionsToken(r.ar.message) THEN
                Again(r,
                      _make_rest_call(PStr(_base_url.v \o CISCOSMA_GET_TOKEN_ENDPOINT), r.ar,
                                      PDict(DefaultHeaders), None, None, None, "post", remote),
                      _make_rest_call(url, r.ar, PDict(headers2), params, data, json_data,
                                      method, remote))
            ELSE IF is_fail(r.ret_val) THEN Called(r.ar.status, None, r.ar, r.sent)
            ELSE Called(APP_SUCCESS, r.payload, r.ar, r.sent)
    IN  Result(_make_rest_call(url, action_result, PDict(headers2), params, data, json_data,
                               method, remote))

\* Variant: the connector logs in before every request
LoginFirstRequest(action_result, endpoint, headers, params, data, json_data, method, remote) ==
    LET url == PStr(_base_url.v \o endpoint)
        headers1 == IF headers = None THEN DefaultHeaders ELSE headers.v
        headers2 == MapUpdate(headers1, "Authorization" :> BasicAuth)
        Result(login, r) ==
            IF is_fail(r.ret_val) THEN Called(r.ar.status, None, r.ar, login.sent \o r.sent)
            ELSE Called(APP_SUCCESS, r.payload, r.ar, login.sent \o r.sent)
    IN  Result(_make_rest_call(PStr(_base_url.v \o CISCOSMA_GET_TOKEN_ENDPOINT), action_result,
                               PDict(DefaultHeaders), None, None, None, "post", remote),
               _make_rest_call(url, action_result, PDict(headers2), params, data, json_data,
                               method, remote))

\* Variant: the Authorization header is added only to the default headers
OwnHeadersRequest(action_result, endpoint, headers, params, data, json_data, method, remote) ==
    LET url == PStr(_base_url.v \o endpoint)
        headers2 == IF headers = None
                    THEN MapUpdate(DefaultHeaders, "Authorization" :> BasicAuth)
                    ELSE headers.v
        Result(r) ==
            IF is_fail(r.ret_val) THEN Called(r.ar.status, None, r.ar, r.sent)
            ELSE Called(APP_SUCCESS, r.payload, r.ar, r.sent)
    IN  Result(_make_rest_call(url, action_result, PDict(headers2), params, data, json_data,
                               method, remote))

_make_authenticated_request(action_result, endpoint, headers, params, data, json_data, method, remote) ==
    LET url == PStr(_base_url.v \o endpoint)
        headers1 == IF headers = None THEN DefaultHeaders ELSE headers.v
        headers2 == MapUpdate(headers1, "Authorization" :> BasicAuth)
        \* ret_val, response = self._make_rest_call(...), as r
        Result(r) ==
            IF is_fail(r.ret_val) THEN Called(r.ar.status, None, r.ar, r.sent)
            ELSE Called(APP_SUCCESS, r.payload, r.ar, r.sent)
    IN  Result(_make_rest_call(url, action_result, PDict(headers2), params, data, json_data,
                               method, remote))

----------------------------------------------------------------------------
(* What a handler leaves behind *)

\* The fields of the connector instance
Self ==
    [base_url |-> _base_url, username |-> _username, password |-> _password,
     verify |-> _verify]

\* The handler returned status; ar is its envelope, sent the requests it issued,
\* p the caller's param dict as the handler left it
Returned(status, ar, sent, p) ==
    [ret |-> status, exc |-> "none", results |-> <<ar>>, sent |-> sent, param |-> p,
     vault |-> <<>>, tmp |-> tmp_files, self |-> Self]

\* An exception left the handler
Raised(e, ar, sent, p) ==
    [ret |-> NO_RETURN, exc |-> e, results |-> <<ar>>, sent |-> sent, param |-> p,
     vault |-> <<>>, tmp |-> tmp_files, self |-> Self]

\* return action_result.set_status(phantom.APP_ERROR, message), before any request
Fail(ar, message, p) == Returned(APP_ERROR, set_status(ar, APP_ERROR, message), <<>>, p)

\* A response mapping without its try block: the exception leaves the handler
ParseRaise(ar, e, sent, p) == Raised(e, ar, sent, p)

\* except Exception as e: return action_result.set_status(APP_ERROR, f"Error parsing response: {e!s}")
ParseFail(ar, e, sent, p) ==
    Returned(APP_ERROR, set_status(ar, APP_ERROR, <<"Error parsing response: {}", PS(e)>>),
             sent, p)

\* The result of a Python expression: a value, or the exception it raises
Value(x) == [ok |-> TRUE, value |-> x, exc |-> "none"]
Raise(e) == [ok |-> FALSE, value |-> None, exc |-> e]

\* obj.get(key, default)
PyGet(obj, key, default) ==
    IF obj.ty = "dict" THEN Value(MapGet(obj.v, key, default)) ELSE Raise("AttributeError")

\* The keys of the JSON objects of the model, in the order the bodies give them
JsonKeyOrder == <<"data", "meta", "error", "attributes", "totalCount", "action", "mid", "subject">>

\* iter(x): the items a for loop visits
PyIter(x) ==
    CASE x.ty = "list" -> Value(x.v)
      [] x.ty = "dict" ->
            Value([i \in 1..Len(SelectSeq(JsonKeyOrder, LAMBDA k : k \in DOMAIN x.v)) |->
                      PS(SelectSeq(JsonKeyOrder, LAMBDA k : k \in DOMAIN x.v)[i])])
      [] x.ty = "str" -> Value([i \in 1..Len(x.v) |-> PS(x.v[i])])
      [] OTHER -> Raise("TypeError")

\* for item in items: action_result.add_data(item)
RECURSIVE add_all(_, _)
add_all(ar, items) ==
    IF items = <<>> THEN ar ELSE add_all(add_data(ar, Head(items)), Tail(items))

\* The decimal strings of the model
StrToInt(tok) ==
    CASE tok = "123" -> Value(PInt(123))
      [] tok = "42" -> Value(PInt(42))
      [] OTHER -> Raise("ValueError")

\* int(x)
PyInt(x) ==
    CASE x.ty = "int" -> Value(x)
      [] x.ty = "bool" -> Value(PInt(IF x.v THEN 1 ELSE 0))
      [] x.ty = "str" -> IF Len(x.v) = 1 THEN StrToInt(x.v[1]) ELSE Raise("ValueError")
      [] OTHER -> Raise("TypeError")

\* for param_name, api_param in optional_params.items():
\*     if value := param.get(param_name): params[api_param] = value
RECURSIVE add_optional(_, _, _)
add_optional(p, params, optional_params) ==
    IF optional_params = <<>> THEN params
    ELSE LET param_name == Head(optional_params)[1]
             api_param == Head(optional_params)[2]
             value == MapGet(p, param_name, None)
         IN  add_optional(p,
                          IF Truthy(value) THEN MapSet(params, api_param, value) ELSE params,
                          Tail(optional_params))

----------------------------------------------------------------------------
(* Dates *)

\* dateutil.parser.parse of the date strings of the model
DateTable(tok) ==
    CASE tok = "2024-01-15 10:30:45" ->
            Value([date |-> "2024-01-15", hour |-> 10, minute |-> 30, second |-> 45])
      [] tok = "2024-01-16 11:45:10" ->
            Value([date |-> "2024-01-16", hour |-> 11, minute |-> 45, second |-> 10])
      [] OTHER -> Raise("ParserError")

\* %H, %M, %S of the numbers of the model, and back
TwoDigits(n) ==
    CASE n = 0 -> "00" [] n = 10 -> "10" [] n = 11 -> "11" [] n = 30 -> "30"
      [] n = 45 -> "45"

FromTwoDigits(tok) ==
    CASE tok = "00" -> 0 [] tok = "10" -> 10 [] tok = "11" -> 11 [] tok = "30" -> 30
      [] tok = "45" -> 45

\* A format that parser.parse does not read back
PlainStrftime(dt) ==
    PStr(<<dt.date, " ", TwoDigits(dt.hour), ":", TwoDigits(dt.minute), ":",
           TwoDigits(dt.second)>>)

\* dt.strftime("%Y-%m-%dT%H:%M:%S.000Z")
strftime(dt) ==
    PStr(<<dt.date, "T", TwoDigits(dt.hour), ":", TwoDigits(dt.minute), ":",
           TwoDigits(dt.second), ".000Z">>)

\* parser.parse(date_str)
parse(date_str) ==
    IF date_str.ty # "str" THEN Raise("TypeError")
    ELSE IF Len(date_str.v) = 1 THEN DateTable(date_str.v[1])
    ELSE IF Len(date_str.v) = 8 /\ date_str.v[2] = "T" /\ date_str.v[8] = ".000Z" THEN
        Value([date |-> date_str.v[1], hour |-> FromTwoDigits(date_str.v[3]),
               minute |-> FromTwoDigits(date_str.v[5]),
               second |-> FromTwoDigits(date_str.v[7])])
    ELSE Raise("ParserError")

_parse_and_format_date(date_str, zero_minutes, zero_seconds) ==
    LET dt == parse(date_str)
    IN  IF ~dt.ok THEN dt
        ELSE LET dt1 == IF zero_minutes THEN [dt.value EXCEPT !.minute = 0] ELSE dt.value
                 dt2 == IF zero_seconds THEN [dt1 EXCEPT !.second = 0] ELSE dt1
             IN  Value(strftime(dt2))

----------------------------------------------------------------------------
(* Handlers: connectivity and the three searches *)

\* if value := params.get(key): if value not in valid: return error
Invalid(params, key, valid) ==
    Truthy(MapGet(params, key, None)) /\ ~InList(MapGet(params, key, None), valid)

\* messages = response.get("data", []); response.get("meta", {}).get("totalCount", 0);
\* for message in messages: the items visited, or the exception raised before any is added
Listing(response) ==
    LET data == PyGet(response, "data", PList(<<>>))
    IN  IF ~data.ok THEN Raise(data.exc)
        ELSE LET meta == PyGet(response, "meta", PDict(EmptyMap)).value
                 total_count == PyGet(meta, "totalCount", PInt(0))
                 messages == PyIter(data.value)
             IN  IF ~total_count.ok THEN Raise(total_count.exc)
                 ELSE IF ~messages.ok THEN Raise(messages.exc)
                 ELSE Value([messages |-> messages.value, total_count |-> total_count.value,
                             meta |-> meta])

_handle_test_connectivity(p, remote) ==
    LET action_result == ActionResult
        \* ret_val, _ = self._make_authenticated_request(...), as r
        Responded(r) ==
            IF is_fail(r.ret_val) THEN Returned(r.ar.status, r.ar, r.sent, p)
            ELSE Returned(APP_SUCCESS, set_status(r.ar, APP_SUCCESS, <<"">>), r.sent, p)
    IN  Responded(_make_authenticated_request(action_result,
                                              CISCOSMA_GET_SUBSCRIPTION_ENDPOINT,
                                              None, None, None, None, "get", remote))

_handle_search_spam_quarantine_messages(p, remote) ==
    LET action_result == ActionResult
        start_date == MapGet(p, "start_date", None)
        end_date == MapGet(p, "end_date", None)
        \* the try block: messages, total_count, add_data, update_summary
        Parsed(r, listing) ==
            IF ~listing.ok THEN ParseFail(r.ar, listing.exc, r.sent, p)
            ELSE Returned(APP_SUCCESS,
                          set_status(
                              update_summary(add_all(r.ar, listing.value.messages),
                                             [total_messages |-> listing.value.total_count,
                                              messages_returned |->
                                                  PInt(Len(listing.value.messages))]),
                              APP_SUCCESS, <<"Successfully retrieved messages">>),
                          r.sent, p)
        \* ret_val, response = self._make_authenticated_request(...), as r
        Responded(r) ==
            IF is_fail(r.ret_val) THEN Returned(r.ar.status, r.ar, r.sent, p)
            ELSE Parsed(r, Listing(r.payload))
        \* the checks of the optional parameters, then the request
        Built(params) ==
            IF Invalid(params, "orderBy", CISCOSMA_VALID_ORDER_BY) THEN
                Fail(action_result, <<"Invalid 'order_by' parameter. Must be one of: {}",
                                      PList(CISCOSMA_VALID_ORDER_BY)>>, p)
            ELSE IF Invalid(params, "orderDir", CISCOSMA_VALID_ORDER_DIRECTIONS) THEN
                Fail(action_result, <<"Invalid 'order_direction' parameter. Must be one of: {}",
                                      PList(CISCOSMA_VALID_ORDER_DIRECTIONS)>>, p)
            ELSE IF Invalid(params, "envelopeRecipientFilterOperator",
                            CISCOSMA_VALID_FILTER_OPERATORS) THEN
                Fail(action_result,
                     <<"Invalid 'envelope_recipient_filter_operator' parameter. Must be one of: {}",
                       PList(CISCOSMA_VALID_FILTER_OPERATORS)>>, p)
            ELSE IF Invalid(params, "filterOperator", CISCOSMA_VALID_FILTER_OPERATORS) THEN
                Fail(action_result, <<"Invalid 'filter_operator' parameter. Must be one of: {}",
                                      PList(CISCOSMA_VALID_FILTER_OPERATORS)>>, p)
            ELSE Responded(_make_authenticated_request(action_result,
                                                       CISCOSMA_SEARCH_MESSAGES_ENDPOINT,
                                                       None, PDict(params), None, None, "get",
                                                       remote))
        \* params = {"startDate": self._parse_and_format_date(start_date), ...}
        Dated(start, end) ==
            IF ~start.ok THEN Raised(start.exc, action_result, <<>>, p)
            ELSE IF ~end.ok THEN Raised(end.exc, action_result, <<>>, p)
            ELSE Built(add_optional(p,
                    [startDate |-> start.value, endDate |-> end.value,
                     quarantineType |-> PS("spam"),
                     offset |-> MapGet(p, "offset", PInt(CISCOSMA_DEFAULT_LIST_OFFSET)),
                     limit |-> MapGet(p, "limit", PInt(CISCOSMA_DEFAULT_LIST_LIMIT))],
                    << <<"order_by", "orderBy">>, <<"order_direction", "orderDir">>,
                       <<"envelope_recipient_filter_operator", "envelopeRecipientFilterOperator">>,
                       <<"envelope_recipient_filter_value", "envelopeRecipientFilterValue">>,
                       <<"filter_by", "filterBy">>, <<"filter_operator", "filterOperator">>,
                       <<"filter_value", "filterValue">> >>))
    IN  IF ~Truthy(start_date) \/ ~Truthy(end_date) THEN
            Fail(action_result, <<"Both 'start_date' and 'end_date' parameters are required">>, p)
        ELSE Dated(_parse_and_format_date(start_date, FALSE, TRUE),
                   _parse_and_format_date(end_date, FALSE, TRUE))

_handle_search_general_quarantine_messages(p, remote) ==
    LET action_result == ActionResult
        start_date == MapGet(p, "start_date", None)
        end_date == MapGet(p, "end_date", None)
        quarantines == MapGet(p, "quarantines", None)
        \* the try block: messages, total_count, add_data, update_summary
        Parsed(r, listing) ==
            IF ~listing.ok THEN ParseFail(r.ar, listing.exc, r.sent, p)
            ELSE Returned(APP_SUCCESS,
                          set_status(
                              update_summary(add_all(r.ar, listing.value.messages),
                                             [total_messages |-> listing.value.total_count,
                                              messages_returned |->
                                                  PInt(Len(listing.value.messages)),
                                              quarantines |-> quarantines]),
                              APP_SUCCESS, <<"Successfully retrieved quarantine messages">>),
                          r.sent, p)
        \* ret_val, response = self._make_authenticated_request(...), as r
        Responded(r) ==
            IF is_fail(r.ret_val) THEN Returned(r.ar.status, r.ar, r.sent, p)
            ELSE Parsed(r, Listing(r.payload))
        \* the checks of the optional parameters, then the request
        Built(params) ==
            IF Invalid(params, "subjectFilterBy", CISCOSMA_VALID_SUBJECT_FILTERS) THEN
                Fail(action_result, <<"Invalid subject_filter_by. Must be one of: {}",
                                      PList(CISCOSMA_VALID_SUBJECT_FILTERS)>>, p)
            ELSE IF Invalid(params, "attachmentSizeFilterBy", CISCOSMA_VALID_SIZE_FILTERS) THEN
                Fail(action_result, <<"Invalid attachment_size_filter_by. Must be one of: {}",
                                      PList(CISCOSMA_VALID_SIZE_FILTERS)>>, p)
            ELSE IF Invalid(params, "orderBy", CISCOSMA_VALID_QUARANTINE_ORDER_BY) THEN
                Fail(action_result, <<"Invalid order_by. Must be one of: {}",
                                      PList(CISCOSMA_VALID_QUARANTINE_ORDER_BY)>>, p)
            ELSE IF Invalid(params, "orderDir", CISCOSMA_VALID_ORDER_DIRECTIONS) THEN
                Fail(action_result, <<"Invalid order_direction. Must be one of: {}",
                                      PList(CISCOSMA_VALID_ORDER_DIRECTIONS)>>, p)
            ELSE Responded(_make_authenticated_request(action_result,
                                                       CISCOSMA_SEARCH_MESSAGES_ENDPOINT,
                                                       None, PDict(params), None, None, "get",
                                                       remote))
        \* params = {"startDate": self._parse_and_format_date(start_date), ...};
        \* if not quarantines: return error
        Dated(start, end) ==
            IF ~start.ok THEN Raised(start.exc, action_result, <<>>, p)
            ELSE IF ~end.ok THEN Raised(end.exc, action_result, <<>>, p)
            ELSE IF ~Truthy(quarantines) THEN
                Fail(action_result, <<"Parameter 'quarantines' is required">>, p)
            ELSE Built(add_optional(p,
                    [startDate |-> start.value, endDate |-> end.value,
                     quarantineType |-> PS("pvo"),
                     offset |-> MapGet(p, "offset", PInt(CISCOSMA_DEFAULT_LIST_OFFSET)),
                     limit |-> MapGet(p, "limit", PInt(CISCOSMA_DEFAULT_LIST_LIMIT)),
                     quarantines |-> quarantines],
                    << <<"subject_filter_by", "subjectFilterBy">>,
                       <<"subject_filter_value", "subjectFilterValue">>,
                       <<"originating_esa_ip", "originatingEsaIp">>,
                       <<"attachment_name", "attachmentName">>,
                       <<"attachment_size_filter_by", "attachmentSizeFilterBy">>,
                       <<"attachment_size_from", "attachmentSizeFromValue">>,
                       <<"attachment_size_to", "attachmentSizeToValue">>,
                       <<"order_by", "orderBy">>, <<"order_direction", "orderDir">>,
                       <<"envelope_recipient_filter_by", "envelopeRecipientFilterBy">>,
                       <<"envelope_recipient_filter_value", "envelopeRecipientFilterValue">>,
                       <<"envelope_sender_filter_by", "envelopeSenderFilterBy">>,
                       <<"envelope_sender_filter_value", "envelopeSenderFilterValue">> >>))
    IN  IF ~Truthy(start_date) \/ ~Truthy(end_date) THEN
            Fail(action_result, <<"Both 'start_date' and 'end_date' parameters are required">>, p)
        ELSE Dated(_parse_and_format_date(start_date, FALSE, TRUE),
                   _parse_and_format_date(end_date, FALSE, TRUE))

\* Variant: each half of a pair is forwarded on its own, as an optional parameter is
RECURSIVE LooseFilterPairs(_, _, _)
LooseFilterPairs(p, params, filter_pairs) ==
    IF filter_pairs = <<>> THEN [ok |-> TRUE, params |-> params, pair |-> <<>>]
    ELSE LET pair == Head(filter_pairs)
         IN  LooseFilterPairs(p, add_optional(p, params, << <<pair[1], pair[3]>>,
                                                            <<pair[2], pair[4]>> >>),
                              Tail(filter_pairs))

\* for (op_param, val_param), (op_name, val_name) in filter_pairs.items(): the params
\* with the complete pairs added, or the first pair that is half given
RECURSIVE add_filter_pairs(_, _, _)
add_filter_pairs(p, params, filter_pairs) ==
    IF filter_pairs = <<>> THEN [ok |-> TRUE, params |-> params, pair |-> <<>>]
    ELSE LET pair == Head(filter_pairs)
             operator == MapGet(p, pair[1], None)
             value == MapGet(p, pair[2], None)
         IN  IF Truthy(operator) /\ Truthy(value) THEN
                 add_filter_pairs(p, MapSet(MapSet(params, pair[3], operator), pair[4], value),
                                  Tail(filter_pairs))
             ELSE IF Truthy(operator) \/ Truthy(value) THEN
                 [ok |-> FALSE, params |-> params, pair |-> pair]
             ELSE add_filter_pairs(p, params, Tail(filter_pairs))

_handle_search_tracking_messages(p, remote) ==
    LET action_result == ActionResult
        start_date == MapGet(p, "start_date", None)
        end_date == MapGet(p, "end_date", None)
        \* the try block: messages, total_count, bad_records, add_data, update_summary
        Parsed(r, listing) ==
            IF ~listing.ok THEN ParseFail(r.ar, listing.exc, r.sent, p)
            ELSE Returned(APP_SUCCESS,
                          set_status(
                              update_summary(add_all(r.ar, listing.value.messages),
                                             [total_messages |-> listing.value.total_count,
                                              messages_returned |->
                                                  PInt(Len(listing.value.messages)),
                                              bad_records |->
                                                  MapGet(listing.value.meta.v,
                                                         "num_bad_records", PInt(0))]),
                              APP_SUCCESS, <<"Successfully retrieved tracking messages">>),
                          r.sent, p)
        \* ret_val, response = self._make_authenticated_request(...), as r
        Responded(r) ==
            IF is_fail(r.ret_val) THEN Returned(r.ar.status, r.ar, r.sent, p)
            ELSE Parsed(r, Listing(r.payload))
        \* the loop over filter_pairs, then the optional parameters and the request
        Filtered(filtered) ==
            IF ~filtered.ok THEN
                Fail(action_result, <<"Both {} and {} must be provided together",
                                      PS(filtered.pair[1]), PS(filtered.pair[2])>>, p)
            ELSE Responded(_make_authenticated_request(
                    action_result, CISCOSMA_SEARCH_TRACKING_MESSAGES_ENDPOINT, None,
                    PDict(add_optional(p, filtered.params,
                              << <<"cisco_host", "ciscoHost">>, <<"sender_ip", "senderIp">>,
                                 <<"file_sha_256", "fileSha256">>,
                                 <<"message_id_header", "messageIdHeader">> >>)),
                    None, None, "get", remote))
        \* params = {"startDate": self._parse_and_format_date(start_date), ...}
        Dated(start, end) ==
            IF ~start.ok THEN Raised(start.exc, action_result, <<>>, p)
            ELSE IF ~end.ok THEN Raised(end.exc, action_result, <<>>, p)
            ELSE Filtered(add_filter_pairs(p,
                    [startDate |-> start.value, endDate |-> end.value,
                     searchOption |-> MapGet(p, "search_option", PS("messages")),
                     offset |-> MapGet(p, "offset", PInt(CISCOSMA_DEFAULT_LIST_OFFSET)),
                     limit |-> MapGet(p, "limit", PInt(CISCOSMA_DEFAULT_LIST_LIMIT))],
                    << <<"sender_filter_operator", "sender_filter_value",
                         "envelopeSenderfilterOperator", "envelopeSenderfilterValue">>,
                       <<"recipient_filter_operator", "recipient_filter_value",
                         "envelopeRecipientfilterOperator", "envelopeRecipientfilterValue">>,
                       <<"subject_filter_operator", "subject_filter_value",
                         "subjectfilterOperator", "subjectfilterValue">>,
                       <<"attachment_name_operator", "attachment_name_value",
                         "attachmentNameOperator", "attachmentNameValue">> >>))
    IN  IF ~Truthy(start_date) \/ ~Truthy(end_date) THEN
            Fail(action_result, <<"Both 'start_date' and 'end_date' parameters are required">>, p)
        ELSE Dated(_parse_and_format_date(start_date, FALSE, TRUE),
                   _parse_and_format_date(end_date, FALSE, TRUE))

----------------------------------------------------------------------------
(* Handlers: message details, release and delete *)

\* x[0]
PyFirst(x) ==
    CASE x.ty = "list" -> IF x.v = <<>> THEN Raise("IndexError") ELSE Value(x.v[1])
      [] x.ty = "str" -> IF x.v = <<>> THEN Raise("IndexError") ELSE Value(PS(x.v[1]))
      [] x.ty = "dict" -> Raise("KeyError")
      [] OTHER -> Raise("TypeError")

_handle_get_spam_quarantine_message_details(p, remote) ==
    LET action_result == ActionResult
        message_id == MapGet(p, "message_id", None)
        params == [mid |-> message_id, quarantineType |-> PS("spam")]
        \* action_result.update_summary({"subject": attributes.get("subject")})
        Summarised(r, added, subject) ==
            IF ~subject.ok THEN ParseFail(added, subject.exc, r.sent, p)
            ELSE Returned(APP_SUCCESS,
                          set_status(update_summary(added, [subject |-> subject.value]),
                                     APP_SUCCESS, <<"Successfully retrieved message details">>),
                          r.sent, p)
        \* attributes = message_data.get("attributes", {})
        Added(r, added, attributes) ==
            IF ~attributes.ok THEN ParseFail(added, attributes.exc, r.sent, p)
            ELSE Summarised(r, added, PyGet(attributes.value, "subject", None))
        \* message_data = response.get("data", {}); action_result.add_data(message_data)
        Parsed(r, message_data) ==
            IF ~message_data.ok THEN ParseFail(r.ar, message_data.exc, r.sent, p)
            ELSE Added(r, add_data(r.ar, message_data.value),
                       PyGet(message_data.value, "attributes", PDict(EmptyMap)))
        \* ret_val, response = self._make_authenticated_request(...), as r
        Responded(r) ==
            IF is_fail(r.ret_val) THEN Returned(r.ar.status, r.ar, r.sent, p)
            ELSE Parsed(r, PyGet(r.payload, "data", PDict(EmptyMap)))
    IN  IF ~Truthy(message_id) THEN
            Fail(action_result, <<"Parameter 'message_id' is required">>, p)
        ELSE Responded(_make_authenticated_request(action_result,
                                                   CISCOSMA_GET_MESSAGE_DETAILS_ENDPOINT,
                                                   None, PDict(params), None, None, "get",
                                                   remote))

_handle_get_general_quarantine_message_details(p, remote) ==
    LET action_result == ActionResult
        message_id == MapGet(p, "message_id", None)
        params == [mid |-> message_id, quarantineType |-> PS("pvo")]
        \* action_result.update_summary({"subject": ..., "quarantine_name": ..., "reason": ...})
        Summarised(r, added, subject, quarantine_name, reason) ==
            IF ~subject.ok THEN ParseFail(added, subject.exc, r.sent, p)
            ELSE IF ~quarantine_name.ok THEN ParseFail(added, quarantine_name.exc, r.sent, p)
            ELSE Returned(APP_SUCCESS,
                          set_status(update_summary(added,
                                                    [subject |-> subject.value,
                                                     quarantine_name |-> quarantine_name.value,
                                                     reason |-> reason.value]),
                                     APP_SUCCESS,
                                     <<"Successfully retrieved general quarantine message details">>),
                          r.sent, p)
        \* quarantine_details = attributes.get("quarantineDetails", [{}])[0]
        Detailed(r, added, message_details, quarantine_details) ==
            IF ~message_details.ok THEN ParseFail(added, message_details.exc, r.sent, p)
            ELSE IF ~quarantine_details.ok THEN
                ParseFail(added, quarantine_details.exc, r.sent, p)
            ELSE Summarised(r, added,
                            PyGet(message_details.value, "subject", None),
                            PyGet(quarantine_details.value, "quarantineName", None),
                            PyGet(quarantine_details.value, "reason", PList(<<>>)))
        \* attributes = message_data.get("attributes", {});
        \* message_details = attributes.get("messageDetails", {})
        Added(r, added, attributes) ==
            IF ~attributes.ok THEN ParseFail(added, attributes.exc, r.sent, p)
            ELSE Detailed(r, added,
                          PyGet(attributes.value, "messageDetails", PDict(EmptyMap)),
                          PyFirst(PyGet(attributes.value, "quarantineDetails",
                                        PList(<<PDict(EmptyMap)>>)).value))
        \* message_data = response.get("data", {}); action_result.add_data(message_data)
        Parsed(r, message_data) ==
            IF ~message_data.ok THEN ParseFail(r.ar, message_data.exc, r.sent, p)
            ELSE Added(r, add_data(r.ar, message_data.value),
                       PyGet(message_data.value, "attributes", PDict(EmptyMap)))
        \* ret_val, response = self._make_authenticated_request(...), as r
        Responded(r) ==
            IF is_fail(r.ret_val) THEN Returned(r.ar.status, r.ar, r.sent, p)
            ELSE Parsed(r, PyGet(r.payload, "data", PDict(EmptyMap)))
    IN  IF ~Truthy(message_id) THEN
            Fail(action_result, <<"Parameter 'message_id' is required">>, p)
        ELSE Responded(_make_authenticated_request(action_result,
                                                   CISCOSMA_GET_MESSAGE_DETAILS_ENDPOINT,
                                                   None, PDict(params), None, None, "get",
                                                   remote))

\* try: message_id = int(message_id) / except ValueError: return error.
\* Any other exception of int() leaves the handler
MessageIdError(action_result, mid, p) ==
    IF mid.exc = "ValueError" THEN
        Fail(action_result, <<"Parameter 'message_id' must be a valid integer">>, p)
    ELSE Raised(mid.exc, action_result, <<>>, p)

\* A mapping that reads the count from "count", which the API does not send
UncountedReleaseOrDelete(r, total_key, extra, message, p) ==
    LET release_data == PyGet(r.payload, "data", PDict(EmptyMap))
        total == PyGet(release_data.value, "count", PInt(0))
        added == add_data(r.ar, release_data.value)
    IN  IF is_fail(r.ret_val) THEN Returned(r.ar.status, r.ar, r.sent, p)
        ELSE IF ~release_data.ok THEN ParseFail(r.ar, release_data.exc, r.sent, p)
        ELSE IF ~total.ok THEN ParseFail(added, total.exc, r.sent, p)
        ELSE Returned(APP_SUCCESS,
                      set_status(update_summary(added,
                                                MapUpdate((total_key :> total.value)
                                                          @@ ("action" :>
                                                                MapGet(release_data.value.v, "action", None)),
                                                          extra)),
                                 APP_SUCCESS, message),
                      r.sent, p)

\* release_data = response.get("data", {}); action_result.add_data(release_data);
\* summary = {total_key: release_data.get("totalCount", 0), "action": release_data.get("action")}
\* with the entries of extra added, then the success message
ReleaseOrDelete(r, total_key, extra, message, p) ==
    LET release_data == PyGet(r.payload, "data", PDict(EmptyMap))
        total == PyGet(release_data.value, "totalCount", PInt(0))
        added == add_data(r.ar, release_data.value)
    IN  IF is_fail(r.ret_val) THEN Returned(r.ar.status, r.ar, r.sent, p)
        ELSE IF ~release_data.ok THEN ParseFail(r.ar, release_data.exc, r.sent, p)
        ELSE IF ~total.ok THEN ParseFail(added, total.exc, r.sent, p)
        ELSE Returned(APP_SUCCESS,
                      set_status(update_summary(added,
                                                MapUpdate((total_key :> total.value)
                                                          @@ ("action" :>
                                                                MapGet(release_data.value.v, "action", None)),
                                                          extra)),
                                 APP_SUCCESS, message),
                      r.sent, p)

_handle_release_spam_message(p, remote) ==
    LET action_result == ActionResult
        message_id == MapGet(p, "message_id", None)
        mid == PyInt(message_id)
        payload == [action |-> PS("release"), quarantineType |-> PS("spam"),
                    mids |-> PList(<<mid.value>>)]
        r == _make_authenticated_request(action_result, CISCOSMA_RELEASE_MESSAGES_ENDPOINT,
                                         None, None, None, PDict(payload), "post", remote)
    IN  IF ~Truthy(message_id) THEN
            Fail(action_result, <<"Parameter 'message_id' is required">>, p)
        ELSE IF ~mid.ok THEN MessageIdError(action_result, mid, p)
        ELSE ReleaseOrDelete(r, "total_released", EmptyMap, <<"Successfully released message">>, p)

_handle_release_general_quarantine_message(p, remote) ==
    LET action_result == ActionResult
        message_id == MapGet(p, "message_id", None)
        quarantine_name == MapGet(p, "quarantine_name", None)
        mid == PyInt(message_id)
        payload == [action |-> PS("release"), quarantineType |-> PS("pvo"),
                    quarantineName |-> quarantine_name, mids |-> PList(<<mid.value>>)]
        r == _make_authenticated_request(action_result, CISCOSMA_RELEASE_MESSAGES_ENDPOINT,
                                         None, None, None, PDict(payload), "post", remote)
    IN  IF ~Truthy(message_id) THEN
            Fail(action_result, <<"Parameter 'message_id' is required">>, p)
        ELSE IF ~Truthy(quarantine_name) THEN
            Fail(action_result, <<"Parameter 'quarantine_name' is required">>, p)
        ELSE IF ~mid.ok THEN MessageIdError(action_result, mid, p)
        ELSE ReleaseOrDelete(r, "total_released", [quarantine_name |-> quarantine_name],
                             <<"Successfully released message from general quarantine">>, p)

_handle_delete_spam_message(p, remote) ==
    LET action_result == ActionResult
        message_id == MapGet(p, "message_id", None)
        mid == PyInt(message_id)
        payload == [quarantineType |-> PS("spam"), mids |-> PList(<<mid.value>>)]
        r == _make_authenticated_request(action_result, CISCOSMA_DELETE_MESSAGES_ENDPOINT,
                                         None, None, None, PDict(payload), "delete", remote)
    IN  IF ~Truthy(message_id) THEN
            Fail(action_result, <<"Parameter 'message_id' is required">>, p)
        ELSE IF ~mid.ok THEN MessageIdError(action_result, mid, p)
        ELSE ReleaseOrDelete(r, "total_deleted", EmptyMap, <<"Successfully deleted message">>, p)

_handle_delete_general_quarantine_message(p, remote) ==
    LET action_result == ActionResult
        message_id == MapGet(p, "message_id", None)
        quarantine_name == MapGet(p, "quarantine_name", None)
        mid == PyInt(message_id)
        payload == [quarantineType |-> PS("pvo"), quarantineName |-> quarantine_name,
                    mids |-> PList(<<mid.value>>)]
        r == _make_authenticated_request(action_result, CISCOSMA_DELETE_MESSAGES_ENDPOINT,
                                         None, None, None, PDict(payload), "delete", remote)
    IN  IF ~Truthy(message_id) THEN
            Fail(action_result, <<"Parameter 'message_id' is required">>, p)
        ELSE IF ~Truthy(quarantine_name) THEN
            Fail(action_result, <<"Parameter 'quarantine_name' is required">>, p)
        ELSE IF ~mid.ok THEN MessageIdError(action_result, mid, p)
        ELSE ReleaseOrDelete(r, "total_deleted", [quarantine_name |-> quarantine_name],
                             <<"Successfully deleted message from general quarantine">>, p)

_handle_get_message_tracking_details(p, remote) ==
    LET action_result == ActionResult
        message_id == MapGet(p, "message_id", None)
        serial_number == MapGet(p, "serial_number", None)
        \* summary = {"subject": message_data.get("subject"), ...}
        Added(r, p2, added, message_data, subject) ==
            IF ~subject.ok THEN ParseFail(added, subject.exc, r.sent, p2)
            ELSE Returned(APP_SUCCESS,
                          set_status(
                              update_summary(added,
                                  [subject |-> subject.value,
                                   status |-> MapGet(message_data.v, "messageStatus", None),
                                   direction |-> MapGet(message_data.v, "direction", None)]),
                              APP_SUCCESS,
                              <<"Successfully retrieved message tracking details">>),
                          r.sent, p2)
        \* message_data = response.get("data", {}).get("messages", {});
        \* action_result.add_data(message_data)
        Parsed(r, p2, message_data) ==
            IF ~message_data.ok THEN ParseFail(r.ar, message_data.exc, r.sent, p2)
            ELSE Added(r, p2, add_data(r.ar, message_data.value), message_data.value,
                       PyGet(message_data.value, "subject", None))
        Got(r, p2, data) ==
            IF ~data.ok THEN ParseFail(r.ar, data.exc, r.sent, p2)
            ELSE Parsed(r, p2, PyGet(data.value, "messages", PDict(EmptyMap)))
        \* ret_val, response = self._make_authenticated_request(...), as r
        Responded(r, p2) ==
            IF is_fail(r.ret_val) THEN Returned(r.ar.status, r.ar, r.sent, p2)
            ELSE Got(r, p2, PyGet(r.payload, "data", PDict(EmptyMap)))
        \* params = {"mid": message_id, "serialNumber": serial_number} and the optional ones
        Request(mid, p2) ==
            Responded(_make_authenticated_request(
                          action_result, CISCOSMA_GET_MESSAGE_TRACKING_DETAILS_ENDPOINT, None,
                          PDict(add_optional(p2, [mid |-> mid.value,
                                                  serialNumber |-> serial_number],
                                             << <<"icid", "icid">>, <<"start_date", "startDate">>,
                                                <<"end_date", "endDate">> >>)),
                          None, None, "get", remote),
                      p2)
        \* if param.get("end_date"): param["end_date"] = self._parse_and_format_date(...)
        EndDated(mid, p1, end) ==
            IF ~end.ok THEN Raised(end.exc, action_result, <<>>, p1)
            ELSE Request(mid, IF Truthy(MapGet(p1, "end_date", None))
                              THEN MapSet(p1, "end_date", end.value) ELSE p1)
        Started(mid, p1) ==
            EndDated(mid, p1,
                     IF Truthy(MapGet(p1, "end_date", None))
                     THEN _parse_and_format_date(MapGet(p1, "end_date", None), FALSE, TRUE)
                     ELSE Value(None))
        \* if param.get("start_date"): param["start_date"] = self._parse_and_format_date(...)
        StartDated(mid, start) ==
            IF ~start.ok THEN Raised(start.exc, action_result, <<>>, p)
            ELSE Started(mid, IF Truthy(MapGet(p, "start_date", None))
                              THEN MapSet(p, "start_date", start.value) ELSE p)
        \* try: message_id = int(message_id) / except ValueError
        Converted(mid) ==
            IF ~mid.ok THEN MessageIdError(action_result, mid, p)
            ELSE StartDated(mid,
                            IF Truthy(MapGet(p, "start_date", None))
                            THEN _parse_and_format_date(MapGet(p, "start_date", None),
                                                        FALSE, TRUE)
                            ELSE Value(None))
    IN  IF ~Truthy(message_id) THEN
            Fail(action_result, <<"Parameter 'message_id' is required">>, p)
        ELSE IF ~Truthy(serial_number) THEN
            Fail(action_result, <<"Parameter 'serial_number' is required">>, p)
        ELSE Converted(PyInt(message_id))

----------------------------------------------------------------------------
(* Handlers: safelist and blocklist *)

Whitespace == {" ", "\t", "\n"}

\* s.strip()
RECURSIVE LStrip(_, _)
LStrip(toks, chars) ==
    IF toks # <<>> /\ Head(toks) \in chars THEN LStrip(Tail(toks), chars) ELSE toks

RECURSIVE RStrip(_, _)
RStrip(toks, chars) ==
    IF toks # <<>> /\ toks[Len(toks)] \in chars THEN RStrip(SubSeq(toks, 1, Len(toks) - 1), chars)
    ELSE toks

Strip(toks, chars) == RStrip(LStrip(toks, chars), chars)

\* s.split(sep): the pieces between the sep tokens
RECURSIVE Split(_, _)
Split(toks, sep) ==
    IF \A i \in 1..Len(toks) : toks[i] # sep THEN <<toks>>
    ELSE LET i == CHOOSE k \in 1..Len(toks) : toks[k] = sep /\ \A j \in 1..(k - 1) : toks[j] # sep
         IN  <<SubSeq(toks, 1, i - 1)>> \o Split(SubSeq(toks, i + 1, Len(toks)), sep)

\* A conversion that splits on commas and keeps the whitespace of the pieces
UntrimmedToList(x) ==
    IF x.ty = "str" THEN
        PList([i \in 1..Len(Split(x.v, ",")) |-> PStr(Split(x.v, ",")[i])])
    ELSE x

\* if isinstance(x, str): x = [addr.strip() for addr in x.split(",")]
ToList(x) ==
    IF x.ty = "str" THEN
        PList([i \in 1..Len(Split(x.v, ",")) |-> PStr(Strip(Split(x.v, ",")[i], Whitespace))])
    ELSE x

\* What _list_entry_operation_setup returns: (action_result, payload, endpoint),
\* or the exception that leaves it
Setup(ar, payload, endpoint) ==
    [ok |-> TRUE, exc |-> "none", ar |-> ar, payload |-> payload, endpoint |-> endpoint]

SetupError(ar, message) == Setup(set_status(ar, APP_ERROR, message), None, None)

_list_entry_operation_setup(p, act) ==
    LET action_result == ActionResult
        list_type_param == MapGet(p, "list_type", PS("safelist"))
        list_type == PStr(Lower(list_type_param.v))
        view_by == MapGet(p, "view_by", PS("recipient"))
        payload0 == [quarantineType |-> PS("spam"), viewBy |-> view_by]
        payload1 == IF act # "delete" THEN MapSet(payload0, "action", PS(act)) ELSE payload0
        recipient_list == MapGet(p, "recipient_list", None)
        recipient_addresses == MapGet(p, "recipient_addresses", None)
        sender_list == MapGet(p, "sender_list", None)
        sender_addresses == MapGet(p, "sender_addresses", None)
        endpoint == IF list_type = PS("safelist") THEN CISCOSMA_SAFELIST_ENDPOINT
                    ELSE CISCOSMA_BLOCKLIST_ENDPOINT
        required(name, view) ==
            <<"Parameter '{}' is required when view_by is '{}'", PS(name), PS(view)>>
    IN  IF list_type_param.ty # "str" THEN
            [ok |-> FALSE, exc |-> "AttributeError", ar |-> action_result, payload |-> None,
             endpoint |-> None]
        ELSE IF ~InList(list_type, CISCOSMA_VALID_LIST_TYPES) THEN
            SetupError(action_result, <<"Invalid parameter 'list_type'. Must be one of: {}",
                                        PList(CISCOSMA_VALID_LIST_TYPES)>>)
        ELSE IF ~InList(view_by, CISCOSMA_VALID_LIST_VIEW_BY) THEN
            SetupError(action_result, <<"Invalid parameter 'view_by'. Must be one of: {}",
                                        PList(CISCOSMA_VALID_LIST_VIEW_BY)>>)
        ELSE IF view_by = PS("recipient") THEN
            IF act = "delete" THEN
                IF ~Truthy(recipient_list) THEN
                    SetupError(action_result, required("recipient_list", "recipient"))
                ELSE Setup(action_result,
                           PDict(MapSet(payload1, "recipientList", ToList(recipient_list))),
                           endpoint)
            ELSE
                IF ~Truthy(recipient_addresses) THEN
                    SetupError(action_result, required("recipient_addresses", "recipient"))
                ELSE IF ~Truthy(sender_list) THEN
                    SetupError(action_result, required("sender_list", "recipient"))
                ELSE Setup(action_result,
                           PDict(MapSet(MapSet(payload1, "recipientAddresses",
                                               ToList(recipient_addresses)),
                                        "senderList", ToList(sender_list))),
                           endpoint)
        ELSE
            IF act = "delete" THEN
                IF ~Truthy(sender_list) THEN
                    SetupError(action_result, required("sender_list", "sender"))
                ELSE Setup(action_result,
                           PDict(MapSet(payload1, "senderList", ToList(sender_list))),
                           endpoint)
            ELSE
                IF ~Truthy(sender_addresses) THEN
                    SetupError(action_result, required("sender_addresses", "sender"))
                ELSE IF ~Truthy(recipient_list) THEN
                    SetupError(action_result, required("recipient_list", "sender"))
                ELSE Setup(action_result,
                           PDict(MapSet(MapSet(payload1, "senderAddresses",
                                               ToList(sender_addresses)),
                                        "recipientList", ToList(recipient_list))),
                           endpoint)

\* Variant: 'search' is forwarded whatever order_by is
ForwardingSearchList(p, remote) ==
    LET action_result == ActionResult
        list_type_param == MapGet(p, "list_type", PS("safelist"))
        list_type == PStr(Lower(list_type_param.v))
        endpoint == IF list_type = PS("safelist") THEN CISCOSMA_SAFELIST_ENDPOINT
                    ELSE CISCOSMA_BLOCKLIST_ENDPOINT
        view_by == MapGet(p, "view_by", PS("recipient"))
        order_by == MapGet(p, "order_by", PS("recipient"))
        order_dir == MapGet(p, "order_direction", PS("desc"))
        search == MapGet(p, "search", None)
        params0 == [action |-> PS("view"), quarantineType |-> PS("spam"), viewBy |-> view_by,
                    orderBy |-> order_by, orderDir |-> order_dir,
                    offset |-> MapGet(p, "offset", PInt(CISCOSMA_DEFAULT_LIST_OFFSET)),
                    limit |-> MapGet(p, "limit", PInt(CISCOSMA_DEFAULT_LIST_LIMIT))]
        params == IF Truthy(search) THEN MapSet(params0, "search", search) ELSE params0
        \* the try block: entries, total_count, add_data, update_summary
        Parsed(r, listing) ==
            IF ~listing.ok THEN ParseFail(r.ar, listing.exc, r.sent, p)
            ELSE Returned(APP_SUCCESS,
                          set_status(
                              update_summary(add_all(r.ar, listing.value.messages),
                                             [total_entries |-> listing.value.total_count,
                                              entries_returned |->
                                                  PInt(Len(listing.value.messages)),
                                              list_type |-> list_type]),
                              APP_SUCCESS, <<"Successfully retrieved {} entries", list_type>>),
                          r.sent, p)
        \* ret_val, response = self._make_authenticated_request(...), as r
        Responded(r) ==
            IF is_fail(r.ret_val) THEN Returned(r.ar.status, r.ar, r.sent, p)
            ELSE Parsed(r, Listing(r.payload))
    IN  IF list_type_param.ty # "str" THEN Raised("AttributeError", action_result, <<>>, p)
        ELSE IF ~InList(list_type, CISCOSMA_VALID_LIST_TYPES) THEN
            Fail(action_result, <<"Invalid parameter 'list_type'. Must be one of: {}",
                                  PList(CISCOSMA_VALID_LIST_TYPES)>>, p)
        ELSE IF ~InList(view_by, CISCOSMA_VALID_LIST_VIEW_BY) THEN
            Fail(action_result, <<"Invalid parameter 'view_by'. Must be one of: {}",
                                  PList(CISCOSMA_VALID_LIST_VIEW_BY)>>, p)
        ELSE IF ~InList(order_by, CISCOSMA_VALID_LIST_ORDER_BY) THEN
            Fail(action_result, <<"Invalid parameter 'order_by'. Must be one of: {}",
                                  PList(CISCOSMA_VALID_LIST_ORDER_BY)>>, p)
        ELSE IF ~InList(order_dir, CISCOSMA_VALID_ORDER_DIRECTIONS) THEN
            Fail(action_result, <<"Invalid parameter 'order_direction'. Must be one of: {}",
                                  PList(CISCOSMA_VALID_ORDER_DIRECTIONS)>>, p)
        ELSE Responded(_make_authenticated_request(action_result, endpoint, None,
                                                   PDict(params), None, None, "get", remote))

\* A search handler that sends the request first and looks at 'search' afterwards
LateValidatingSearchList(p, remote) ==
    LET Responded(r) ==
            IF Truthy(MapGet(p, "search", None))
               /\ MapGet(p, "order_by", PS("recipient")) # PS("recipient") THEN
                Returned(APP_ERROR,
                         set_status(r.ar, APP_ERROR,
                                    <<"Search parameter is only supported when order_by is set to 'recipient'">>),
                         r.sent, p)
            ELSE Returned(r.ar.status, r.ar, r.sent, p)
    IN  Responded(_make_authenticated_request(ActionResult, CISCOSMA_SAFELIST_ENDPOINT, None,
                                              PDict([action |-> PS("view")]), None, None,
                                              "get", remote))

_handle_search_list(p, remote) ==
    LET action_result == ActionResult
        list_type_param == MapGet(p, "list_type", PS("safelist"))
        list_type == PStr(Lower(list_type_param.v))
        endpoint == IF list_type = PS("safelist") THEN CISCOSMA_SAFELIST_ENDPOINT
                    ELSE CISCOSMA_BLOCKLIST_ENDPOINT
        view_by == MapGet(p, "view_by", PS("recipient"))
        order_by == MapGet(p, "order_by", PS("recipient"))
        order_dir == MapGet(p, "order_direction", PS("desc"))
        search == MapGet(p, "search", None)
        params0 == [action |-> PS("view"), quarantineType |-> PS("spam"), viewBy |-> view_by,
                    orderBy |-> order_by, orderDir |-> order_dir,
                    offset |-> MapGet(p, "offset", PInt(CISCOSMA_DEFAULT_LIST_OFFSET)),
                    limit |-> MapGet(p, "limit", PInt(CISCOSMA_DEFAULT_LIST_LIMIT))]
        params == IF Truthy(search) THEN MapSet(params0, "search", search) ELSE params0
        \* the try block: entries, total_count, add_data, update_summary
        Parsed(r, listing) ==
            IF ~listing.ok THEN ParseFail(r.ar, listing.exc, r.sent, p)
            ELSE Returned(APP_SUCCESS,
                          set_status(
                              update_summary(add_all(r.ar, listing.value.messages),
                                             [total_entries |-> listing.value.total_count,
                                              entries_returned |->
                                                  PInt(Len(listing.value.messages)),
                                              list_type |-> list_type]),
                              APP_SUCCESS, <<"Successfully retrieved {} entries", list_type>>),
                          r.sent, p)
        \* ret_val, response = self._make_authenticated_request(...), as r
        Responded(r) ==
            IF is_fail(r.ret_val) THEN Returned(r.ar.status, r.ar, r.sent, p)
            ELSE Parsed(r, Listing(r.payload))
    IN  IF list_type_param.ty # "str" THEN Raised("AttributeError", action_result, <<>>, p)
        ELSE IF ~InList(list_type, CISCOSMA_VALID_LIST_TYPES) THEN
            Fail(action_result, <<"Invalid parameter 'list_type'. Must be one of: {}",
                                  PList(CISCOSMA_VALID_LIST_TYPES)>>, p)
        ELSE IF ~InList(view_by, CISCOSMA_VALID_LIST_VIEW_BY) THEN
            Fail(action_result, <<"Invalid parameter 'view_by'. Must be one of: {}",
                                  PList(CISCOSMA_VALID_LIST_VIEW_BY)>>, p)
        ELSE IF ~InList(order_by, CISCOSMA_VALID_LIST_ORDER_BY) THEN
            Fail(action_result, <<"Invalid parameter 'order_by'. Must be one of: {}",
                                  PList(CISCOSMA_VALID_LIST_ORDER_BY)>>, p)
        ELSE IF ~InList(order_dir, CISCOSMA_VALID_ORDER_DIRECTIONS) THEN
            Fail(action_result, <<"Invalid parameter 'order_direction'. Must be one of: {}",
                                  PList(CISCOSMA_VALID_ORDER_DIRECTIONS)>>, p)
        ELSE IF Truthy(search) /\ order_by # PS("recipient") THEN
            Fail(action_result,
                 <<"Search parameter is only supported when order_by is set to 'recipient'">>, p)
        ELSE Responded(_make_authenticated_request(action_result, endpoint, None,
                                                   PDict(params), None, None, "get", remote))

\* "safelist" if CISCOSMA_SAFELIST_ENDPOINT in endpoint else "blocklist"
ListTypeOf(endpoint) ==
    IF Contains(CISCOSMA_SAFELIST_ENDPOINT, endpoint) THEN PS("safelist") ELSE PS("blocklist")

\* The body of _handle_add_list_entry and _handle_edit_list_entry: act is "add" or "edit"
AddOrEdit(p, act, message, remote) ==
    LET \* data = response.get("data", {}); add_data; update_summary
        Parsed(s, r, data) ==
            IF ~data.ok THEN ParseFail(r.ar, data.exc, r.sent, p)
            ELSE Returned(APP_SUCCESS,
                          set_status(update_summary(add_data(r.ar, data.value),
                                                    [list_type |-> ListTypeOf(s.endpoint),
                                                     view_by |-> s.payload.v["viewBy"],
                                                     status |-> PS("success")]),
                                     APP_SUCCESS, <<message, ListTypeOf(s.endpoint)>>),
                          r.sent, p)
        \* ret_val, response = self._make_authenticated_request(...), as r
        Responded(s, r) ==
            IF is_fail(r.ret_val) THEN Returned(r.ar.status, r.ar, r.sent, p)
            ELSE Parsed(s, r, PyGet(r.payload, "data", PDict(EmptyMap)))
        \* action_result, payload, endpoint = self._list_entry_operation_setup(...), as s
        Prepared(s) ==
            IF ~s.ok THEN Raised(s.exc, s.ar, <<>>, p)
            ELSE IF s.payload = None THEN Returned(s.ar.status, s.ar, <<>>, p)
            ELSE Responded(s, _make_authenticated_request(s.ar, s.endpoint, None, None, None,
                                                          s.payload, "post", remote))
    IN  Prepared(_list_entry_operation_setup(p, act))

_handle_add_list_entry(p, remote) ==
    AddOrEdit(p, "add", "Successfully added entry in {}", remote)

_handle_edit_list_entry(p, remote) ==
    AddOrEdit(p, "edit", "Successfully edited entry in {}", remote)

\* A delete handler that sends its payload the way add and edit do, with POST
PostingDeleteListEntry(p, remote) ==
    AddOrEdit(p, "delete", "Successfully deleted entries from {}", remote)

_handle_delete_list_entry(p, remote) ==
    LET \* summary = {"list_type": ..., "view_by": ..., "total_deleted": ..., "status": ...}
        Added(s, r, added, total) ==
            IF ~total.ok THEN ParseFail(added, total.exc, r.sent, p)
            ELSE Returned(APP_SUCCESS,
                          set_status(update_summary(added,
                                                    [list_type |-> ListTypeOf(s.endpoint),
                                                     view_by |-> s.payload.v["viewBy"],
                                                     total_deleted |-> total.value,
                                                     status |-> PS("success")]),
                                     APP_SUCCESS,
                                     <<"Successfully deleted entries from {}",
                                       ListTypeOf(s.endpoint)>>),
                          r.sent, p)
        \* delete_data = response.get("data", {}); action_result.add_data(delete_data)
        Parsed(s, r, delete_data) ==
            IF ~delete_data.ok THEN ParseFail(r.ar, delete_data.exc, r.sent, p)
            ELSE Added(s, r, add_data(r.ar, delete_data.value),
                       PyGet(delete_data.value, "totalCount", PInt(0)))
        \* ret_val, response = self._make_authenticated_request(...), as r
        Responded(s, r) ==
            IF is_fail(r.ret_val) THEN Returned(r.ar.status, r.ar, r.sent, p)
            ELSE Parsed(s, r, PyGet(r.payload, "data", PDict(EmptyMap)))
        \* action_result, payload, endpoint = self._list_entry_operation_setup(...), as s;
        \* action_result.update_summary({"payload": payload}) comes before the request
        Prepared(s) ==
            IF ~s.ok THEN Raised(s.exc, s.ar, <<>>, p)
            ELSE IF s.payload = None THEN Returned(s.ar.status, s.ar, <<>>, p)
            ELSE Responded(s, _make_authenticated_request(
                                  update_summary(s.ar, [payload |-> s.payload]),
                                  s.endpoint, None, None, None, s.payload, "delete", remote))
    IN  Prepared(_list_entry_operation_setup(p, "delete"))

----------------------------------------------------------------------------
(* Handlers: statistics report and attachment download *)

\* str(n) of the numbers of the model
IntToStr(n) == CASE n = 123 -> "123" [] n = 42 -> "42" [] n = 7 -> "7" [] OTHER -> "<int>"

\* f"{x}": the tokens of str(x)
Format(x) ==
    CASE x.ty = "str" -> x.v
      [] x.ty = "int" -> <<IntToStr(x.v)>>
      [] x.ty = "NoneType" -> <<"None">>
      [] OTHER -> <<"<repr>">>

_handle_get_statistics_report(p, remote) ==
    LET action_result == ActionResult
        start_date == MapGet(p, "start_date", None)
        end_date == MapGet(p, "end_date", None)
        report_type == MapGet(p, "report_type", None)
        device_type == MapGet(p, "device_type", PS("esa"))
        counter == MapGet(p, "counter", None)
        endpoint ==
            IF Truthy(counter) THEN
                CISCOSMA_REPORTING_ENDPOINT \o Format(report_type) \o <<"/">> \o Format(counter)
            ELSE CISCOSMA_REPORTING_ENDPOINT \o Format(report_type)
        \* summary = {"report_type": ..., "total_count": response.get("meta", {}).get(...)}
        Added(r, added, total_count) ==
            IF ~total_count.ok THEN ParseFail(added, total_count.exc, r.sent, p)
            ELSE Returned(APP_SUCCESS,
                          set_status(update_summary(added,
                                                    [report_type |-> report_type,
                                                     total_count |-> total_count.value]),
                                     APP_SUCCESS, <<"Successfully retrieved statistics report">>),
                          r.sent, p)
        \* action_result.add_data(response.get("data", {}))
        Parsed(r, data) ==
            IF ~data.ok THEN ParseFail(r.ar, data.exc, r.sent, p)
            ELSE Added(r, add_data(r.ar, data.value),
                       PyGet(PyGet(r.payload, "meta", PDict(EmptyMap)).value,
                             "totalCount", PInt(0)))
        \* ret_val, response = self._make_authenticated_request(...), as r
        Responded(r) ==
            IF is_fail(r.ret_val) THEN Returned(r.ar.status, r.ar, r.sent, p)
            ELSE Parsed(r, PyGet(r.payload, "data", PDict(EmptyMap)))
        \* the checks of the optional parameters, then the request
        Built(params) ==
            IF Invalid(params, "orderDir", CISCOSMA_VALID_ORDER_DIRECTIONS) THEN
                Fail(action_result, <<"Invalid parameter 'order_direction'. Must be one of: {}",
                                      PList(CISCOSMA_VALID_ORDER_DIRECTIONS)>>, p)
            ELSE IF Invalid(params, "filterOperator", CISCOSMA_VALID_FILTER_OPERATORS_REPORT) THEN
                Fail(action_result, <<"Invalid parameter 'filter_operator'. Must be one of: {}",
                                      PList(CISCOSMA_VALID_FILTER_OPERATORS_REPORT)>>, p)
            ELSE Responded(_make_authenticated_request(action_result, endpoint, None,
                                                       PDict(params), None, None, "get",
                                                       remote))
        \* start_date = self._parse_and_format_date(start_date, zero_minutes=True, ...)
        Dated(start, end) ==
            IF ~start.ok THEN Raised(start.exc, action_result, <<>>, p)
            ELSE IF ~end.ok THEN Raised(end.exc, action_result, <<>>, p)
            ELSE IF ~Truthy(report_type) THEN
                Fail(action_result, <<"Parameter 'report_type' is required">>, p)
            ELSE Built(add_optional(p,
                    [startDate |-> start.value, endDate |-> end.value,
                     device_type |-> device_type,
                     offset |-> MapGet(p, "offset", PInt(CISCOSMA_DEFAULT_LIST_OFFSET)),
                     limit |-> MapGet(p, "limit", PInt(CISCOSMA_DEFAULT_LIST_LIMIT))],
                    << <<"query_type", "query_type">>, <<"order_by", "orderBy">>,
                       <<"order_direction", "orderDir">>, <<"top", "top">>,
                       <<"filter_value", "filterValue">>, <<"filter_by", "filterBy">>,
                       <<"filter_operator", "filterOperator">>,
                       <<"device_group_name", "device_group_name">>,
                       <<"device_name", "device_name">> >>))
    IN  IF ~Truthy(start_date) \/ ~Truthy(end_date) THEN
            Fail(action_result, <<"Both 'start_date' and 'end_date' parameters are required">>, p)
        ELSE Dated(_parse_and_format_date(start_date, TRUE, TRUE),
                   _parse_and_format_date(end_date, TRUE, TRUE))

\* A file name used as it was found
UnsanitizedFileName(file_name) == file_name

\* re.sub(r"""[,"']""", "", file_name)
_sanitize_file_name(file_name) ==
    PStr(SelectSeq(file_name.v, LAMBDA c : c \notin {",", "\"", "'"}))

\* s.split(sep)[-1]
LastPiece(toks, sep) == Split(toks, sep)[Len(Split(toks, sep))]

\* base64.b64decode(content): the bytes, or binascii.Error
b64decode(content) ==
    IF content = <<"aGk=">> THEN Value([ty |-> "bytes", v |-> <<104, 105>>])
    ELSE Raise("binascii.Error")

\* What the vault and the temporary directory do during one download
VaultBehaviours ==
    {"succeeded", "not_succeeded", "no_vault_id", "add_attachment_raises", "write_raises",
     "mkstemp_raises"}

\* The most temporary files the model lets exist at once
MaxTmpFiles == 2

\* What _download_to_vault returns: (success, vault_id, filename, error_message), the
\* Vault.add_attachment calls it made and the temporary files that exist after it
Downloaded(success, vault_id, filename, error_message, vault, tmp) ==
    [success |-> success, vault_id |-> vault_id, filename |-> filename,
     error_message |-> error_message, vault |-> vault, tmp |-> tmp]

_download_to_vault(action_result, response, default_filename, behaviour) ==
    LET content_disposition == MapGet(response.v.headers, "Content-Disposition", PStr(<<>>)).v
        filename0 ==
            IF Contains(<<"filename=">>, content_disposition) THEN
                PStr(Strip(LastPiece(content_disposition, "filename="), {"\""}))
            ELSE IF Contains(<<"filename*=">>, content_disposition) THEN
                PStr(LastPiece(LastPiece(content_disposition, "filename*="), "''"))
            ELSE None
        tmp_file_path == Cardinality(tmp_files) + 1
        \* content = base64.b64decode(response.text.strip()), or response.content
        Decoded(stripped, decoded) ==
            IF decoded.ok THEN decoded.value ELSE [ty |-> "bytes", v |-> stripped]
        Content(stripped) == Decoded(stripped, b64decode(stripped))
        \* Vault.add_attachment(file_location=tmp_file_path, ..., file_name=filename)
        Stored(filename, added) ==
            IF behaviour = "mkstemp_raises" THEN
                Downloaded(FALSE, None, None,
                           <<"Error downloading to vault: {}", PS("OSError")>>, <<>>, tmp_files)
            ELSE IF behaviour = "write_raises" THEN
                Downloaded(FALSE, None, None,
                           <<"Error downloading to vault: {}", PS("OSError")>>,
                           <<>>, tmp_files \cup {tmp_file_path})
            ELSE IF behaviour = "add_attachment_raises" THEN
                Downloaded(FALSE, None, None,
                           <<"Error downloading to vault: {}", PS("Exception")>>,
                           added, tmp_files \cup {tmp_file_path})
            ELSE IF behaviour = "not_succeeded" THEN
                Downloaded(FALSE, None, None,
                           <<"Error adding file to vault: {}", PS("vault is full")>>,
                           added, tmp_files)
            ELSE IF behaviour = "no_vault_id" THEN
                Downloaded(FALSE, None, None, <<"No vault ID returned from vault_add">>, added,
                           tmp_files)
            ELSE Downloaded(TRUE, PS("vault-id-1"), filename, None, added, tmp_files)
        Named(filename) ==
            Stored(filename,
                   <<[file_location |-> tmp_file_path, file_name |-> filename,
                      content |-> Content(Strip(response.v.text.v, Whitespace))]>>)
        \* if not filename: filename = default_filename or "unknown_file"
        Found(filename) ==
            Named(_sanitize_file_name(IF Truthy(filename) THEN filename
                                      ELSE IF Truthy(default_filename) THEN default_filename
                                      ELSE PS("unknown_file")))
    IN  Found(filename0)

_handle_download_attachment(p, remote, behaviour) ==
    LET action_result == ActionResult
        message_id == MapGet(p, "message_id", None)
        attachment_id == MapGet(p, "attachment_id", None)
        params == [mid |-> message_id, attachmentId |-> attachment_id,
                   quarantineType |-> PS("pvo")]
        headers == ("Accept" :> PS("*/*")) @@ ("Content-Type" :> PS("application/json"))
        default_filename ==
            PStr(<<"attachment_">> \o Format(message_id) \o <<"_">> \o Format(attachment_id))
        done(r, d, ar) ==
            [ret |-> ar.status, exc |-> "none", results |-> <<ar>>, sent |-> r.sent,
             param |-> p, vault |-> d.vault, tmp |-> d.tmp, self |-> Self]
        \* success, vault_id, filename, error_message = self._download_to_vault(...), as d
        Stored(r, d) ==
            IF ~d.success THEN done(r, d, set_status(r.ar, APP_ERROR, d.error_message))
            ELSE done(r, d,
                      set_status(
                          update_summary(
                              add_data(r.ar, PDict([vault_id |-> d.vault_id,
                                                    filename |-> d.filename])),
                              [vault_id |-> d.vault_id, filename |-> d.filename,
                               size |-> MapGet(r.payload.v.headers, "Content-Length",
                                               PS("Unknown"))]),
                          APP_SUCCESS,
                          <<"Successfully downloaded attachment '{}' to vault", d.filename>>))
        \* error_msg = error_json.get("error", {}).get("message", "Unknown error occurred");
        \* except Exception: pass
        Explained(r, error_msg) ==
            IF error_msg.ok THEN
                Returned(APP_ERROR,
                         set_status(r.ar, APP_ERROR, <<"API Error: {}", error_msg.value>>),
                         r.sent, p)
            ELSE Stored(r, _download_to_vault(r.ar, r.payload, default_filename, behaviour))
        ErrorOf(error) ==
            IF error.ok THEN PyGet(error.value, "message", PS("Unknown error occurred"))
            ELSE error
        ErrorMsg(error_json) ==
            IF error_json.ok THEN ErrorOf(PyGet(error_json.value, "error", PDict(EmptyMap)))
            ELSE Raise("JSONDecodeError")
        \* content_type = response.headers.get("Content-Type", "")
        Typed(r, content_type) ==
            Explained(r, IF Contains(<<"application/json">>, Lower(content_type))
                         THEN ErrorMsg(JsonParse(r.payload.v.text))
                         ELSE Raise("none"))
        \* ret_val, response = self._make_authenticated_request(...), as r
        Responded(r) ==
            IF is_fail(r.ret_val) THEN Returned(r.ar.status, r.ar, r.sent, p)
            ELSE IF r.payload.ty # "Response" THEN
                Returned(APP_ERROR,
                         set_status(r.ar, APP_ERROR,
                                    <<"Error downloading attachment: {}", PS("AttributeError")>>),
                         r.sent, p)
            ELSE Typed(r, MapGet(r.payload.v.headers, "Content-Type", PStr(<<>>)).v)
    IN  IF ~Truthy(message_id) THEN
            Fail(action_result, <<"Parameter 'message_id' is required">>, p)
        ELSE IF ~Truthy(attachment_id) THEN
            Fail(action_result, <<"Parameter 'attachment_id' is required">>, p)
        ELSE Responded(_make_authenticated_request(action_result,
                                                   CISCOSMA_DOWNLOAD_ATTACHMENT_ENDPOINT,
                                                   PDict(headers), PDict(params), None, None,
                                                   "get", remote))

----------------------------------------------------------------------------
(* initialize and handle_action *)

\* The fields initialize() sets from the asset configuration
initialize(config) ==
    [base_url |-> PStr(RStrip(config["host"].v, {"/"})),
     username |-> config["username"],
     password |-> config["password"],
     verify |-> MapGet(config, "verify_server_cert", PBool(FALSE))]

\* Variant: an identifier outside the mapping runs the connectivity handler
DefaultingHandleAction(action_id, p, remote, behaviour) ==
    CASE action_id = "test_connectivity" -> _handle_test_connectivity(p, remote)
      [] action_id = "search_spam_quarantine_messages" ->
            _handle_search_spam_quarantine_messages(p, remote)
      [] action_id = "search_general_quarantine_messages" ->
            _handle_search_general_quarantine_messages(p, remote)
      [] action_id = "search_tracking_messages" -> _handle_search_tracking_messages(p, remote)
      [] action_id = "get_spam_quarantine_message_details" ->
            _handle_get_spam_quarantine_message_details(p, remote)
      [] action_id = "get_general_quarantine_message_details" ->
            _handle_get_general_quarantine_message_details(p, remote)
      [] action_id = "get_message_tracking_details" ->
            _handle_get_message_tracking_details(p, remote)
      [] action_id = "release_spam_message" -> _handle_release_spam_message(p, remote)
      [] action_id = "release_general_quarantine_message" ->
            _handle_release_general_quarantine_message(p, remote)
      [] action_id = "delete_spam_message" -> _handle_delete_spam_message(p, remote)
      [] action_id = "delete_general_quarantine_message" ->
            _handle_delete_general_quarantine_message(p, remote)
      [] action_id = "search_list" -> _handle_search_list(p, remote)
      [] action_id = "add_list_entry" -> _handle_add_list_entry(p, remote)
      [] action_id = "edit_list_entry" -> _handle_edit_list_entry(p, remote)
      [] action_id = "delete_list_entry" -> _handle_delete_list_entry(p, remote)
      [] action_id = "get_statistics_report" -> _handle_get_statistics_report(p, remote)
      [] action_id = "download_attachment" -> _handle_download_attachment(p, remote, behaviour)
      [] OTHER -> _handle_test_connectivity(p, remote)

\* Variant: a failed or raising action leaves the instance without its password
ForgetfulHandleAction(action_id, p, remote, behaviour) ==
    LET Forget(h) ==
            IF h.ret = APP_SUCCESS THEN h ELSE [h EXCEPT !.self.password = None]
    IN  Forget(
        CASE action_id = "test_connectivity" -> _handle_test_connectivity(p, remote)
          [] action_id = "search_spam_quarantine_messages" ->
                _handle_search_spam_quarantine_messages(p, remote)
          [] action_id = "search_general_quarantine_messages" ->
                _handle_search_general_quarantine_messages(p, remote)
          [] action_id = "search_tracking_messages" -> _handle_search_tracking_messages(p, remote)
          [] action_id = "get_spam_quarantine_message_details" ->
                _handle_get_spam_quarantine_message_details(p, remote)
          [] action_id = "get_general_quarantine_message_details" ->
                _handle_get_general_quarantine_message_details(p, remote)
          [] action_id = "get_message_tracking_details" ->
                _handle_get_message_tracking_details(p, remote)
          [] action_id = "release_spam_message" -> _handle_release_spam_message(p, remote)
          [] action_id = "release_general_quarantine_message" ->
                _handle_release_general_quarantine_message(p, remote)
          [] action_id = "delete_spam_message" -> _handle_delete_spam_message(p, remote)
          [] action_id = "delete_general_quarantine_message" ->
                _handle_delete_general_quarantine_message(p, remote)
          [] action_id = "search_list" -> _handle_search_list(p, remote)
          [] action_id = "add_list_entry" -> _handle_add_list_entry(p, remote)
          [] action_id = "edit_list_entry" -> _handle_edit_list_entry(p, remote)
          [] action_id = "delete_list_entry" -> _handle_delete_list_entry(p, remote)
          [] action_id = "get_statistics_report" -> _handle_get_statistics_report(p, remote)
          [] action_id = "download_attachment" -> _handle_download_attachment(p, remote, behaviour)
          [] OTHER ->
                [ret |-> APP_SUCCESS, exc |-> "none", results |-> <<>>, sent |-> <<>>,
                 param |-> p, vault |-> <<>>, tmp |-> tmp_files, self |-> Self])

\* handle_action: the handler the action identifier is mapped to, if any
handle_action(action_id, p, remote, behaviour) ==
    CASE action_id = "test_connectivity" -> _handle_test_connectivity(p, remote)
      [] action_id = "search_spam_quarantine_messages" ->
            _handle_search_spam_quarantine_messages(p, remote)
      [] action_id = "search_general_quarantine_messages" ->
            _handle_search_general_quarantine_messages(p, remote)
      [] action_id = "search_tracking_messages" -> _handle_search_tracking_messages(p, remote)
      [] action_id = "get_spam_quarantine_message_details" ->
            _handle_get_spam_quarantine_message_details(p, remote)
      [] action_id = "get_general_quarantine_message_details" ->
            _handle_get_general_quarantine_message_details(p, remote)
      [] action_id = "get_message_tracking_details" ->
            _handle_get_message_tracking_details(p, remote)
      [] action_id = "release_spam_message" -> _handle_release_spam_message(p, remote)
      [] action_id = "release_general_quarantine_message" ->
            _handle_release_general_quarantine_message(p, remote)
      [] action_id = "delete_spam_message" -> _handle_delete_spam_message(p, remote)
      [] action_id = "delete_general_quarantine_message" ->
            _handle_delete_general_quarantine_message(p, remote)
      [] action_id = "search_list" -> _handle_search_list(p, remote)
      [] action_id = "add_list_entry" -> _handle_add_list_entry(p, remote)
      [] action_id = "edit_list_entry" -> _handle_edit_list_entry(p, remote)
      [] action_id = "delete_list_entry" -> _handle_delete_list_entry(p, remote)
      [] action_id = "get_statistics_report" -> _handle_get_statistics_report(p, remote)
      [] action_id = "download_attachment" -> _handle_download_attachment(p, remote, behaviour)
      [] OTHER ->
            [ret |-> APP_SUCCESS, exc |-> "none", results |-> <<>>, sent |-> <<>>,
             param |-> p, vault |-> <<>>, tmp |-> tmp_files, self |-> Self]

----------------------------------------------------------------------------
(* Inputs *)

Configs ==
    { ("host" :> PStr(<<"https://sma.example">>))
        @@ ("username" :> PStr(<<"a", "d", "m", "i", "n">>))
        @@ ("password" :> PStr(<<"p", "w">>)),
      ("host" :> PStr(<<"https://10.0.0.1", "/", "/">>))
        @@ ("username" :> PStr(<<"o", "p", "s">>))
        @@ ("password" :> PStr(<<"p", "a", "s", "s", "1">>))
        @@ ("verify_server_cert" :> PBool(TRUE)) }

Date1 == PS("2024-01-15 10:30:45")
Date2 == PS("2024-01-16 11:45:10")
BadDate == PS("not a date")
Dates == ("start_date" :> Date1) @@ ("end_date" :> Date2)

Params_search_spam_quarantine_messages ==
    { Dates,
      Dates @@ ("order_by" :> PS("subject")) @@ ("order_direction" :> PS("asc"))
            @@ ("filter_by" :> PS("subject")) @@ ("filter_operator" :> PS("contains"))
            @@ ("filter_value" :> PS("invoice")) @@ ("limit" :> PInt(7)),
      Dates @@ ("order_by" :> PS("invalid_field")),
      Dates @@ ("filter_operator" :> PS("matches")),
      "start_date" :> Date1,
      ("start_date" :> PStr(<<>>)) @@ ("end_date" :> Date2),
      ("end_date" :> Date2) @@ ("order_by" :> PS("invalid_field")),
      ("start_date" :> BadDate) @@ ("end_date" :> Date2),
      ("start_date" :> BadDate) @@ ("end_date" :> Date2) @@ ("order_by" :> PS("invalid_field")),
      ("start_date" :> Date1) @@ ("end_date" :> PInt(42)) }

Params_search_general_quarantine_messages ==
    { Dates @@ ("quarantines" :> PS("Policy")),
      Dates @@ ("quarantines" :> PS("Policy")) @@ ("order_by" :> PS("received"))
            @@ ("subject_filter_by" :> PS("contains")) @@ ("subject_filter_value" :> PS("invoice")),
      Dates @@ ("quarantines" :> PS("Policy")) @@ ("order_by" :> PS("invalid_field")),
      Dates,
      ("start_date" :> Date1) @@ ("end_date" :> BadDate) @@ ("quarantines" :> PS("Policy")),
      ("start_date" :> Date1) @@ ("end_date" :> BadDate) @@ ("quarantines" :> PS("Policy"))
            @@ ("order_by" :> PS("invalid_field")),
      ("end_date" :> Date2) @@ ("quarantines" :> PS("Policy")) }

Params_search_tracking_messages ==
    { Dates,
      Dates @@ ("sender_filter_operator" :> PS("contains"))
            @@ ("sender_filter_value" :> PS("a@x.com")) @@ ("sender_ip" :> PS("10.0.0.9")),
      Dates @@ ("subject_filter_operator" :> PS("contains")),
      Dates @@ ("attachment_name_value" :> PS("a.pdf")),
      Dates @@ ("sender_filter_operator" :> PS("matches"))
            @@ ("sender_filter_value" :> PS("a@x.com")),
      ("start_date" :> BadDate) @@ ("end_date" :> Date2),
      ("start_date" :> BadDate) @@ ("end_date" :> Date2)
            @@ ("recipient_filter_operator" :> PS("contains")),
      EmptyMap }

Params_message_details ==
    { "message_id" :> PS("123"), "message_id" :> PInt(42), "message_id" :> PS("abc"),
      EmptyMap }

Params_get_message_tracking_details ==
    { ("message_id" :> PS("123")) @@ ("serial_number" :> PS("SN1")),
      ("message_id" :> PS("123")) @@ ("serial_number" :> PS("SN1")) @@ ("icid" :> PInt(7))
            @@ ("start_date" :> Date1) @@ ("end_date" :> Date2),
      ("message_id" :> PS("123")) @@ ("serial_number" :> PS("SN1"))
            @@ ("start_date" :> Date1) @@ ("end_date" :> BadDate),
      ("message_id" :> PS("abc")) @@ ("serial_number" :> PS("SN1")),
      ("message_id" :> PList(<<PInt(42)>>)) @@ ("serial_number" :> PS("SN1")),
      "message_id" :> PS("123") }

Params_spam_message ==
    { "message_id" :> PS("123"), "message_id" :> PInt(42), "message_id" :> PS("abc"),
      "message_id" :> PList(<<PInt(42)>>), EmptyMap }

Params_general_quarantine_message ==
    { ("message_id" :> PS("123")) @@ ("quarantine_name" :> PS("Policy")),
      ("message_id" :> PS("abc")) @@ ("quarantine_name" :> PS("Policy")),
      ("message_id" :> PList(<<PInt(42)>>)) @@ ("quarantine_name" :> PS("Policy")),
      "message_id" :> PS("123"),
      "quarantine_name" :> PS("Policy") }

Params_search_list ==
    { EmptyMap,
      ("list_type" :> PS("BLOCKLIST")) @@ ("view_by" :> PS("sender"))
            @@ ("order_by" :> PS("recipient")) @@ ("search" :> PS("a@x.com")),
      ("order_by" :> PS("sender")) @@ ("search" :> PS("a@x.com")),
      ("order_by" :> PS("sender")) @@ ("search" :> PStr(<<>>)),
      ("list_type" :> PInt(42)) @@ ("order_by" :> PS("sender"))
            @@ ("search" :> PS("a@x.com")),
      "list_type" :> PS("greylist"),
      "list_type" :> PInt(42),
      "order_direction" :> PS("up") }

TwoAddresses == PStr(<<"a@x.com", ",", " ", "b@x.com">>)
TwoAddressesList == PList(<<PS("a@x.com"), PS("b@x.com")>>)

Params_add_list_entry ==
    { ("recipient_addresses" :> TwoAddresses) @@ ("sender_list" :> PS("s@y.com")),
      ("list_type" :> PS("blocklist")) @@ ("view_by" :> PS("sender"))
            @@ ("sender_addresses" :> TwoAddressesList) @@ ("recipient_list" :> TwoAddresses),
      "recipient_addresses" :> TwoAddresses,
      "view_by" :> PS("domain"),
      "list_type" :> None }

Params_delete_list_entry ==
    { ("list_type" :> PS("safelist")) @@ ("view_by" :> PS("recipient"))
            @@ ("recipient_list" :> PStr(<<"a@x.com", ",", "b@x.com">>)),
      ("list_type" :> PS("Safelist")) @@ ("recipient_list" :> TwoAddressesList),
      ("list_type" :> PS("blocklist")) @@ ("view_by" :> PS("sender"))
            @@ ("sender_list" :> TwoAddresses),
      "view_by" :> PS("sender"),
      "list_type" :> PInt(42) }

Params_get_statistics_report ==
    { Dates @@ ("report_type" :> PS("mail_incoming_traffic_summary")),
      Dates @@ ("report_type" :> PS("mail_incoming_traffic_summary"))
            @@ ("counter" :> PS("detected_spam")) @@ ("filter_operator" :> PS("is"))
            @@ ("order_direction" :> PS("desc")),
      Dates @@ ("report_type" :> PS("mail_incoming_traffic_summary"))
            @@ ("filter_operator" :> PS("contains")),
      Dates,
      ("start_date" :> BadDate) @@ ("end_date" :> Date2),
      ("start_date" :> PStr(<<>>)) @@ ("end_date" :> BadDate)
            @@ ("report_type" :> PS("mail_incoming_traffic_summary")),
      "report_type" :> PS("mail_incoming_traffic_summary") }

Params_download_attachment ==
    { ("message_id" :> PS("123")) @@ ("attachment_id" :> PS("7")),
      ("message_id" :> PInt(42)) @@ ("attachment_id" :> PInt(7)),
      ("message_id" :> PS("abc")) @@ ("attachment_id" :> PS("7")),
      "message_id" :> PS("123"),
      "attachment_id" :> PS("7") }

UnknownActions == {"on_poll", "TEST_CONNECTIVITY"}

----------------------------------------------------------------------------
(* The state machine *)

\* __init__
Init ==
    /\ _base_url = None
    /\ _username = None
    /\ _password = None
    /\ _verify = PBool(FALSE)
    /\ initialized = FALSE
    /\ action = "none"
    /\ param = EmptyMap
    /\ action_results = <<>>
    /\ http_log = <<>>
    /\ ret = NO_RETURN
    /\ exc = "none"
    /\ vault_log = <<>>
    /\ tmp_files = {}

Initialize ==
    /\ ~initialized
    /\ \E config \in Configs :
        /\ _base_url' = initialize(config).base_url
        /\ _username' = initialize(config).username
        /\ _password' = initialize(config).password
        /\ _verify' = initialize(config).verify
    /\ initialized' = TRUE
    /\ UNCHANGED <<action, param, action_results, http_log, ret, exc, vault_log, tmp_files>>

\* One handle_action call on the initialized instance, from start to return (or raise):
\* h is what handle_action left behind
Call(action_id, h) ==
    /\ initialized
    /\ action = "none"
    /\ action' = action_id
    /\ param' = h.param
    /\ action_results' = h.results
    /\ http_log' = h.sent
    /\ ret' = h.ret
    /\ exc' = h.exc
    /\ vault_log' = h.vault
    /\ tmp_files' = h.tmp
    /\ _base_url' = h.self.base_url
    /\ _username' = h.self.username
    /\ _password' = h.self.password
    /\ _verify' = h.self.verify
    /\ UNCHANGED initialized

\* The platform takes the outcome of the call; the instance and the temporary
\* directory stay as the call left them
Collect ==
    /\ action # "none"
    /\ action' = "none"
    /\ param' = EmptyMap
    /\ action_results' = <<>>
    /\ http_log' = <<>>
    /\ ret' = NO_RETURN
    /\ exc' = "none"
    /\ vault_log' = <<>>
    /\ UNCHANGED <<_base_url, _username, _password, _verify, initialized, tmp_files>>

test_connectivity ==
    \E remote \in Remotes :
        Call("test_connectivity",
             handle_action("test_connectivity", EmptyMap, remote, "succeeded"))

search_spam_quarantine_messages ==
    \E p \in Params_search_spam_quarantine_messages, remote \in Remotes :
        Call("search_spam_quarantine_messages",
             handle_action("search_spam_quarantine_messages", p, remote, "succeeded"))

search_general_quarantine_messages ==
    \E p \in Params_search_general_quarantine_messages, remote \in Remotes :
        Call("search_general_quarantine_messages",
             handle_action("search_general_quarantine_messages", p, remote, "succeeded"))

search_tracking_messages ==
    \E p \in Params_search_tracking_messages, remote \in Remotes :
        Call("search_tracking_messages",
             handle_action("search_tracking_messages", p, remote, "succeeded"))

get_spam_quarantine_message_details ==
    \E p \in Params_message_details, remote \in Remotes :
        Call("get_spam_quarantine_message_details",
             handle_action("get_spam_quarantine_message_details", p, remote, "succeeded"))

get_general_quarantine_message_details ==
    \E p \in Params_message_details, remote \in Remotes :
        Call("get_general_quarantine_message_details",
             handle_action("get_general_quarantine_message_details", p, remote, "succeeded"))

get_message_tracking_details ==
    \E p \in Params_get_message_tracking_details, remote \in Remotes :
        Call("get_message_tracking_details",
             handle_action("get_message_tracking_details", p, remote, "succeeded"))

release_spam_message ==
    \E p \in Params_spam_message, remote \in Remotes :
        Call("release_spam_message",
             handle_action("release_spam_message", p, remote, "succeeded"))

release_general_quarantine_message ==
    \E p \in Params_general_quarantine_message, remote \in Remotes :
        Call("release_general_quarantine_message",
             handle_action("release_general_quarantine_message", p, remote, "succeeded"))

delete_spam_message ==
    \E p \in Params_spam_message, remote \in Remotes :
        Call("delete_spam_message",
             handle_action("delete_spam_message", p, remote, "succeeded"))

delete_general_quarantine_message ==
    \E p \in Params_general_quarantine_message, remote \in Remotes :
        Call("delete_general_quarantine_message",
             handle_action("delete_general_quarantine_message", p, remote, "succeeded"))

search_list ==
    \E p \in Params_search_list, remote \in Remotes :
        Call("search_list",
             handle_action("search_list", p, remote, "succeeded"))

add_list_entry ==
    \E p \in Params_add_list_entry, remote \in Remotes :
        Call("add_list_entry",
             handle_action("add_list_entry", p, remote, "succeeded"))

edit_list_entry ==
    \E p \in Params_add_list_entry, remote \in Remotes :
        Call("edit_list_entry",
             handle_action("edit_list_entry", p, remote, "succeeded"))

delete_list_entry ==
    \E p \in Params_delete_list_entry, remote \in Remotes :
        Call("delete_list_entry",
             handle_action("delete_list_entry", p, remote, "succeeded"))

get_statistics_report ==
    \E p \in Params_get_statistics_report, remote \in Remotes :
        Call("get_statistics_report",
             handle_action("get_statistics_report", p, remote, "succeeded"))

download_attachment ==
    /\ Cardinality(tmp_files) < MaxTmpFiles
    /\ \E p \in Params_download_attachment, remote \in Remotes, behaviour \in VaultBehaviours :
        Call("download_attachment",
             handle_action("download_attachment", p, remote, behaviour))

unsupported_action ==
    \E action_id \in UnknownActions, remote \in Remotes :
        Call(action_id,
             handle_action(action_id, EmptyMap, remote, "succeeded"))

Next ==
    \/ Initialize
    \/ Collect
    \/ test_connectivity
    \/ search_spam_quarantine_messages
    \/ search_general_quarantine_messages
    \/ search_tracking_messages
    \/ get_spam_quarantine_message_details
    \/ get_general_quarantine_message_details
    \/ get_message_tracking_details
    \/ release_spam_message
    \/ release_general_quarantine_message
    \/ delete_spam_message
    \/ delete_general_quarantine_message
    \/ search_list
    \/ add_list_entry
    \/ edit_list_entry
    \/ delete_list_entry
    \/ get_statistics_report
    \/ download_attachment
    \/ unsupported_action

Spec == Init /\ [][Next]_vars

----------------------------------------------------------------------------
(* Properties of the authenticated request *)

\* The requests of the last call that went to the login endpoint, and the others
LoginUrl == PStr(_base_url.v \o CISCOSMA_GET_TOKEN_ENDPOINT)
Acquisitions == SelectSeq(http_log, LAMBDA e : e.url = LoginUrl)
BusinessRequests == SelectSeq(http_log, LAMBDA e : e.url # LoginUrl)

\* The request without what came back
RequestOf(e) ==
    [method |-> e.method, url |-> e.url, headers |-> e.headers, params |-> e.params,
     data |-> e.data, json |-> e.json, verify |-> e.verify]

\* C1: no action invocation issues more than one HTTP request, whatever the error
\* text is, and the failure of that request is the final result of the action: the
\* handler returns APP_ERROR with the message _make_rest_call left in the envelope.
C1_NoRetry ==
    /\ Len(http_log) <= 1
    /\ \A i \in 1..Len(http_log) :
          is_fail(http_log[i].ret_val) =>
              /\ exc = "none"
              /\ ret = APP_ERROR
              /\ Len(action_results) = 1
              /\ action_results[1].status = APP_ERROR
              /\ action_results[1].message = http_log[i].message

\* C1 happens: a request failed with an error that mentions a token, and was the only one
C1_Witness ==
    /\ action = "search_list"
    /\ Len(http_log) = 1
    /\ is_fail(http_log[1].ret_val)
    /\ MentionsToken(http_log[1].message)
    /\ ret = APP_ERROR

\* C2 as stated: after a failure whose message contains "token" there is exactly one
\* credential acquisition and exactly one retry of the identical request.
C2_TokenRetry ==
    (/\ BusinessRequests # <<>>
     /\ is_fail(BusinessRequests[1].ret_val)
     /\ MentionsToken(BusinessRequests[1].message))
    => /\ Len(Acquisitions) = 1
       /\ Len(BusinessRequests) = 2
       /\ RequestOf(BusinessRequests[2]) = RequestOf(BusinessRequests[1])

\* C2 amended: with the basic-auth credential the connector uses, a failure whose
\* message contains "token" causes no credential acquisition and no retry: the request
\* was issued once and its failure is returned verbatim as the final result.
C2_TokenFailureIsFinal ==
    \A i \in 1..Len(http_log) :
        (is_fail(http_log[i].ret_val) /\ MentionsToken(http_log[i].message))
        => /\ Acquisitions = <<>>
           /\ Len(BusinessRequests) = 1
           /\ ret = APP_ERROR
           /\ action_results[1].message =
                  <<"API call failed. Status code: {}. Response: {}", PInt(401), BodyToken>>

\* C2 happens: the remote answered 401 with {"error":"token expired"}
C2_Witness ==
    /\ action = "release_spam_message"
    /\ Len(http_log) = 1
    /\ http_log[1].remote.kind = "response"
    /\ http_log[1].remote.response.v.status_code = 401
    /\ http_log[1].remote.response.v.text = BodyToken
    /\ is_fail(http_log[1].ret_val)

\* C3 as stated: the connector holds no credential between requests, so every first
\* business request is preceded by exactly one POST to the login endpoint.
C3_LoginPrecedes ==
    http_log # <<>> =>
        /\ http_log[1].url = LoginUrl
        /\ http_log[1].method = "post"
        /\ Len(Acquisitions) = 1

\* C3 amended: the connector makes no credential-acquisition call: no request goes to
\* the login endpoint, and the first request of an operation is its business request,
\* carrying the credential computed from the configuration.
C3_NoLogin ==
    /\ Acquisitions = <<>>
    /\ http_log # <<>> =>
          /\ http_log[1].url # LoginUrl
          /\ SubSeq(http_log[1].url.v, 1, Len(_base_url.v)) = _base_url.v
          /\ http_log[1].headers.v["Authorization"] = BasicAuth

\* C3 happens: the first request of a connectivity test is the subscription request
C3_Witness ==
    /\ action = "test_connectivity"
    /\ Len(http_log) = 1
    /\ http_log[1].method = "get"
    /\ http_log[1].url = PStr(_base_url.v \o CISCOSMA_GET_SUBSCRIPTION_ENDPOINT)

\* C4: every request carries Authorization: "Basic " + base64(username:password) of
\* the configuration; with no headers from the handler the others are the JSON
\* defaults, with headers from the handler they are the handler's; and an
\* Authorization value the caller supplies is overwritten.
C4_BasicAuthorization ==
    /\ \A i \in 1..Len(http_log) :
          /\ http_log[i].headers.v["Authorization"] = BasicAuth
          /\ action # "download_attachment" =>
                http_log[i].headers.v = DefaultHeaders @@ ("Authorization" :> BasicAuth)
          /\ action = "download_attachment" =>
                http_log[i].headers.v =
                    ("Accept" :> PS("*/*")) @@ ("Content-Type" :> PS("application/json"))
                    @@ ("Authorization" :> BasicAuth)
    /\ initialized =>
          \A remote \in Remotes :
              _make_authenticated_request(
                  ActionResult, CISCOSMA_GET_SUBSCRIPTION_ENDPOINT,
                  PDict(("Authorization" :> PS("Bearer abc123")) @@ ("Accept" :> PS("*/*"))),
                  None, None, None, "get", remote).sent[1].headers.v
              = ("Authorization" :> BasicAuth) @@ ("Accept" :> PS("*/*"))

\* C4 happens: admin:pw is sent as Basic YWRtaW46cHc= with the handler's own headers
C4_Witness ==
    /\ action = "download_attachment"
    /\ Len(http_log) = 1
    /\ _username = PStr(<<"a", "d", "m", "i", "n">>)
    /\ http_log[1].headers.v["Authorization"] =
           PStr(<<"Basic ", "Y", "W", "R", "t", "a", "W", "4", "6", "c", "H", "c", "=">>)
    /\ http_log[1].headers.v["Accept"] = PS("*/*")

----------------------------------------------------------------------------
(* Properties of the HTTP executor *)

\* C5 as stated: every response with a status other than 200 makes _make_rest_call
\* return a failure with a None payload and a message that holds the status code and
\* the raw body, whatever the content type and whether or not the body is valid JSON.
C5_NonOkCarriesStatusAndBody ==
    \A i \in 1..Len(http_log) :
        (/\ http_log[i].remote.kind = "response"
         /\ http_log[i].remote.response.v.status_code # 200)
        => /\ http_log[i].ret_val = APP_ERROR
           /\ http_log[i].payload = None
           /\ \E j \in 2..Len(http_log[i].message) :
                 http_log[i].message[j] = PInt(http_log[i].remote.response.v.status_code)
           /\ \E j \in 2..Len(http_log[i].message) :
                 http_log[i].message[j] = http_log[i].remote.response.v.text

\* The Content-Type values of the model that contain application/json in some case
JsonContentTypes == {JSON_CT, JSON_CT_UPPER}

\* C6: a 200 response whose Content-Type contains application/json in any case
\* yields success with the parsed JSON value, or, when the body does not parse, a
\* failure with the 'Invalid JSON response' message, which is not the transport
\* message; a 200 response of any other content type yields success with the raw
\* response object.
C6_ContentTypeDecides ==
    \A i \in 1..Len(http_log) :
        (/\ http_log[i].remote.kind = "response"
         /\ http_log[i].remote.response.v.status_code = 200)
        => LET response == http_log[i].remote.response
               content_type == MapGet(response.v.headers, "Content-Type", PStr(<<>>)).v
           IN  IF content_type \in JsonContentTypes THEN
                   IF JsonParse(response.v.text).ok THEN
                       /\ http_log[i].ret_val = APP_SUCCESS
                       /\ http_log[i].payload = JsonParse(response.v.text).value
                   ELSE
                       /\ http_log[i].ret_val = APP_ERROR
                       /\ http_log[i].payload = None
                       /\ http_log[i].message =
                              <<"Invalid JSON response from server: {}", response.v.text>>
                       /\ http_log[i].message[1] # "Error connecting to server: {}"
               ELSE
                   /\ http_log[i].ret_val = APP_SUCCESS
                   /\ http_log[i].payload = response

\* C6 happens: a 200 response with Content-Type Application/JSON; charset=UTF-8 was parsed
C6_Witness ==
    /\ Len(http_log) = 1
    /\ http_log[1].remote.kind = "response"
    /\ http_log[1].remote.response.v.status_code = 200
    /\ MapGet(http_log[1].remote.response.v.headers, "Content-Type", None)
           = PStr(JSON_CT_UPPER)
    /\ http_log[1].ret_val = APP_SUCCESS
    /\ http_log[1].payload.ty = "dict"

\* C7: a network failure of the HTTP call makes _make_rest_call return a failure with
\* a None payload and the 'Error connecting to server' message; a failure of a call
\* that got a response carries another message; either way the call ends as a
\* failure that is returned, not raised: the handler goes on to return APP_ERROR.
C7_NetworkFailureClass ==
    \A i \in 1..Len(http_log) :
        /\ http_log[i].ret_val \in {APP_SUCCESS, APP_ERROR}
        /\ (http_log[i].remote.kind = "raise"
             /\ http_log[i].remote.exception \in RequestExceptions)
           => /\ http_log[i].ret_val = APP_ERROR
              /\ http_log[i].payload = None
              /\ http_log[i].message =
                     <<"Error connecting to server: {}", PS(http_log[i].remote.exception)>>
        /\ (http_log[i].remote.kind = "response" /\ is_fail(http_log[i].ret_val))
           => /\ http_log[i].payload = None
              /\ http_log[i].message[1] # "Error connecting to server: {}"
        /\ http_log[i].message[1] = "API call failed. Status code: {}. Response: {}"
           => /\ http_log[i].remote.kind = "response"
              /\ http_log[i].remote.response.v.status_code # 200
        /\ is_fail(http_log[i].ret_val) => (exc = "none" /\ ret = APP_ERROR)

\* C7 happens: the request of a statistics report timed out
C7_Witness ==
    /\ action = "get_statistics_report"
    /\ Len(http_log) = 1
    /\ http_log[1].remote.kind = "raise"
    /\ http_log[1].remote.exception = "Timeout"
    /\ http_log[1].message[1] = "Error connecting to server: {}"
    /\ ret = APP_ERROR

----------------------------------------------------------------------------
(* Properties of the handlers *)

\* The action identifiers handle_action maps to a handler
SupportedActions ==
    {"test_connectivity", "search_spam_quarantine_messages",
     "search_general_quarantine_messages", "search_tracking_messages",
     "get_spam_quarantine_message_details", "get_general_quarantine_message_details",
     "get_message_tracking_details", "release_spam_message",
     "release_general_quarantine_message", "delete_spam_message",
     "delete_general_quarantine_message", "search_list", "add_list_entry",
     "edit_list_entry", "delete_list_entry", "get_statistics_report",
     "download_attachment"}

\* C8 as stated: for every action and every parameter mapping no exception leaves
\* handle_action: an error ends in a returned, failed envelope with a message.
C8_ErrorsRecovered ==
    action \in SupportedActions =>
        /\ exc = "none"
        /\ ret \in {APP_SUCCESS, APP_ERROR}
        /\ ret = APP_ERROR =>
              /\ Len(action_results) = 1
              /\ action_results[1].status = APP_ERROR
              /\ action_results[1].message # <<"">>

\* C9 as stated: every invoked operation has exactly one envelope, whose status is
\* set exactly once along every path through the handler.
C9_FinalizedOnce ==
    action \in SupportedActions =>
        /\ Len(action_results) = 1
        /\ action_results[1].set_count = 1

\* C10: once initialize has run, no step changes base_url, username, password or the
\* TLS-verification flag, whether the action of the step succeeds, fails or raises;
\* so every action runs with the configuration initialize read.
C10_ConfigurationFrame ==
    [][initialized =>
          /\ _base_url' = _base_url
          /\ _username' = _username
          /\ _password' = _password
          /\ _verify' = _verify
          /\ initialized']_vars

\* C10 happens: a failed action ran on the instance and left the configuration
\* initialize read
C10_Witness ==
    /\ action = "delete_list_entry"
    /\ ret = APP_ERROR
    /\ http_log # <<>>
    /\ Self \in {initialize(config) : config \in Configs}

----------------------------------------------------------------------------
(* Parameter validation *)

\* The messages of the parameter checks of the handlers: a missing required field, a
\* value outside its list, a message_id that is no integer, half a filter pair, a
\* search the list order does not support
ValidationMessages ==
    {"Both 'start_date' and 'end_date' parameters are required",
     "Both {} and {} must be provided together",
     "Invalid 'envelope_recipient_filter_operator' parameter. Must be one of: {}",
     "Invalid 'filter_operator' parameter. Must be one of: {}",
     "Invalid 'order_by' parameter. Must be one of: {}",
     "Invalid 'order_direction' parameter. Must be one of: {}",
     "Invalid attachment_size_filter_by. Must be one of: {}",
     "Invalid order_by. Must be one of: {}",
     "Invalid order_direction. Must be one of: {}",
     "Invalid parameter 'filter_operator'. Must be one of: {}",
     "Invalid parameter 'list_type'. Must be one of: {}",
     "Invalid parameter 'order_by'. Must be one of: {}",
     "Invalid parameter 'order_direction'. Must be one of: {}",
     "Invalid parameter 'view_by'. Must be one of: {}",
     "Invalid subject_filter_by. Must be one of: {}",
     "Parameter 'attachment_id' is required",
     "Parameter 'message_id' is required",
     "Parameter 'message_id' must be a valid integer",
     "Parameter 'quarantine_name' is required",
     "Parameter 'quarantines' is required",
     "Parameter 'report_type' is required",
     "Parameter 'serial_number' is required",
     "Parameter '{}' is required when view_by is '{}'",
     "Search parameter is only supported when order_by is set to 'recipient'"}

\* The operation ended with the message of a parameter check
ValidationError ==
    /\ action \in SupportedActions
    /\ Len(action_results) = 1
    /\ action_results[1].status = APP_ERROR
    /\ action_results[1].message[1] \in ValidationMessages

\* C11: an operation that ended with a parameter-validation error issued no HTTP
\* request, and an operation that issued a request does not end with the message
\* of a parameter check: every check comes before the request.
C11_ValidationPrecedesRequest ==
    /\ ValidationError => http_log = <<>>
    /\ (action \in SupportedActions /\ http_log # <<>> /\ Len(action_results) = 1) =>
           action_results[1].message[1] \notin ValidationMessages

\* get_statistics_report stopped at its last check, filter_operator, with nothing sent
C11_Witness ==
    /\ action = "get_statistics_report"
    /\ ValidationError
    /\ action_results[1].message[1] = "Invalid parameter 'filter_operator'. Must be one of: {}"
    /\ http_log = <<>>

\* The parameters of each action that take a value of an enumerated list: the sort
\* fields and directions, the filter operators, the subject and size filters, the
\* list types and view-by values
EnumeratedParameters ==
    { <<"search_spam_quarantine_messages", "order_by", CISCOSMA_VALID_ORDER_BY>>,
      <<"search_spam_quarantine_messages", "order_direction", CISCOSMA_VALID_ORDER_DIRECTIONS>>,
      <<"search_spam_quarantine_messages", "envelope_recipient_filter_operator",
        CISCOSMA_VALID_FILTER_OPERATORS>>,
      <<"search_spam_quarantine_messages", "filter_operator", CISCOSMA_VALID_FILTER_OPERATORS>>,
      <<"search_general_quarantine_messages", "subject_filter_by",
        CISCOSMA_VALID_SUBJECT_FILTERS>>,
      <<"search_general_quarantine_messages", "attachment_size_filter_by",
        CISCOSMA_VALID_SIZE_FILTERS>>,
      <<"search_general_quarantine_messages", "order_by", CISCOSMA_VALID_QUARANTINE_ORDER_BY>>,
      <<"search_general_quarantine_messages", "order_direction",
        CISCOSMA_VALID_ORDER_DIRECTIONS>>,
      <<"search_tracking_messages", "sender_filter_operator", CISCOSMA_VALID_FILTER_OPERATORS>>,
      <<"search_tracking_messages", "recipient_filter_operator",
        CISCOSMA_VALID_FILTER_OPERATORS>>,
      <<"search_tracking_messages", "subject_filter_operator", CISCOSMA_VALID_FILTER_OPERATORS>>,
      <<"search_tracking_messages", "attachment_name_operator", CISCOSMA_VALID_FILTER_OPERATORS>>,
      <<"search_list", "list_type", CISCOSMA_VALID_LIST_TYPES>>,
      <<"search_list", "view_by", CISCOSMA_VALID_LIST_VIEW_BY>>,
      <<"search_list", "order_by", CISCOSMA_VALID_LIST_ORDER_BY>>,
      <<"search_list", "order_direction", CISCOSMA_VALID_ORDER_DIRECTIONS>>,
      <<"add_list_entry", "list_type", CISCOSMA_VALID_LIST_TYPES>>,
      <<"add_list_entry", "view_by", CISCOSMA_VALID_LIST_VIEW_BY>>,
      <<"edit_list_entry", "list_type", CISCOSMA_VALID_LIST_TYPES>>,
      <<"edit_list_entry", "view_by", CISCOSMA_VALID_LIST_VIEW_BY>>,
      <<"delete_list_entry", "list_type", CISCOSMA_VALID_LIST_TYPES>>,
      <<"delete_list_entry", "view_by", CISCOSMA_VALID_LIST_VIEW_BY>>,
      <<"get_statistics_report", "order_direction", CISCOSMA_VALID_ORDER_DIRECTIONS>>,
      <<"get_statistics_report", "filter_operator", CISCOSMA_VALID_FILTER_OPERATORS_REPORT>> }

\* The value given for the parameter is not empty and is not in the list (a list
\* type is compared in lower case, as the handlers do)
OutOfSet(name, valid) ==
    /\ name \in DOMAIN param
    /\ Truthy(param[name])
    /\ ~InList(IF name = "list_type" /\ param[name].ty = "str"
               THEN PStr(Lower(param[name].v)) ELSE param[name], valid)

\* C12 as stated: whenever the parameters of an operation hold a non-empty value
\* outside the enumerated list of a sort field, sort direction, filter operator,
\* subject filter, size filter, list type or view-by, the operation ended in an
\* error and no HTTP request was issued.
C12_OutOfSetRejected ==
    \A e \in EnumeratedParameters :
        (action = e[1] /\ OutOfSet(e[2], e[3])) =>
            (ret # APP_SUCCESS /\ http_log = <<>>)

\* A quarantine search whose start_date, end_date (and quarantines, for the general
\* quarantine) are given and whose order_by is outside the sort fields of the action
InvalidOrderBy ==
    /\ "start_date" \in DOMAIN param /\ Truthy(param["start_date"])
    /\ "end_date" \in DOMAIN param /\ Truthy(param["end_date"])
    /\ \/ action = "search_spam_quarantine_messages"
          /\ OutOfSet("order_by", CISCOSMA_VALID_ORDER_BY)
       \/ action = "search_general_quarantine_messages"
          /\ "quarantines" \in DOMAIN param /\ Truthy(param["quarantines"])
          /\ OutOfSet("order_by", CISCOSMA_VALID_QUARANTINE_ORDER_BY)

\* C13 as stated: a quarantine search (spam or general) with its required parameters
\* present and an order_by outside the valid sort fields returns an error status in
\* its envelope, having issued no HTTP request.
C13_InvalidOrderByRejected ==
    InvalidOrderBy =>
        /\ ret = APP_ERROR
        /\ Len(action_results) = 1
        /\ action_results[1].status = APP_ERROR
        /\ http_log = <<>>

----------------------------------------------------------------------------
(* Properties of the list-entry operations *)

ListEntryActions == {"add_list_entry", "edit_list_entry", "delete_list_entry"}

\* list_type and view_by as the caller gave them, with their defaults
GivenListType == Lower(MapGet(param, "list_type", PS("safelist")).v)
GivenViewBy == MapGet(param, "view_by", PS("recipient"))

\* C14: the request of add, edit and delete list entry is determined by the action,
\* list_type and view_by: it goes to the safelist endpoint iff the lower-cased
\* list_type is "safelist" and to the blocklist endpoint otherwise; its payload has
\* quarantineType "spam" and viewBy, an "action" key iff the action is not delete,
\* and beside these exactly one list key for delete (recipientList or senderList by
\* view_by) and exactly the pair (recipientAddresses, senderList) or
\* (senderAddresses, recipientList) for add and edit; delete is sent with DELETE, add
\* and edit with POST. Deleting recipient_list "a@x.com,b@x.com" from the safelist
\* by recipient sends exactly {quarantineType: spam, viewBy: recipient,
\* recipientList: [a@x.com, b@x.com]} with DELETE to the safelist endpoint.
C14_ListEntryRequest ==
    /\ (action \in ListEntryActions /\ http_log # <<>>) =>
          /\ http_log[1].url =
                PStr(_base_url.v \o (IF GivenListType = <<"safelist">>
                                     THEN CISCOSMA_SAFELIST_ENDPOINT
                                     ELSE CISCOSMA_BLOCKLIST_ENDPOINT))
          /\ http_log[1].method = (IF action = "delete_list_entry" THEN "delete" ELSE "post")
          /\ http_log[1].params = None
          /\ http_log[1].json.v["quarantineType"] = PS("spam")
          /\ http_log[1].json.v["viewBy"] = GivenViewBy
          /\ ("action" \in DOMAIN http_log[1].json.v) <=> (action # "delete_list_entry")
          /\ action = "add_list_entry" => http_log[1].json.v["action"] = PS("add")
          /\ action = "edit_list_entry" => http_log[1].json.v["action"] = PS("edit")
          /\ DOMAIN http_log[1].json.v \ {"quarantineType", "viewBy", "action"} =
                (IF action = "delete_list_entry"
                 THEN (IF GivenViewBy = PS("recipient") THEN {"recipientList"}
                       ELSE {"senderList"})
                 ELSE (IF GivenViewBy = PS("recipient")
                       THEN {"recipientAddresses", "senderList"}
                       ELSE {"senderAddresses", "recipientList"}))
    /\ (/\ action = "delete_list_entry"
        /\ param = ("list_type" :> PS("safelist")) @@ ("view_by" :> PS("recipient"))
                    @@ ("recipient_list" :> PStr(<<"a@x.com", ",", "b@x.com">>))) =>
          /\ Len(http_log) = 1
          /\ http_log[1].method = "delete"
          /\ http_log[1].url = PStr(_base_url.v \o CISCOSMA_SAFELIST_ENDPOINT)
          /\ http_log[1].json =
                PDict([quarantineType |-> PS("spam"), viewBy |-> PS("recipient"),
                       recipientList |-> PList(<<PS("a@x.com"), PS("b@x.com")>>)])

\* C14 happens: the delete of the scenario was sent
C14_Witness ==
    /\ action = "delete_list_entry"
    /\ MapGet(param, "recipient_list", None) = PStr(<<"a@x.com", ",", "b@x.com">>)
    /\ GivenListType = <<"safelist">>
    /\ Len(http_log) = 1
    /\ http_log[1].method = "delete"
    /\ DOMAIN http_log[1].json.v = {"quarantineType", "viewBy", "recipientList"}

\* The list inputs of the list-entry operations and the payload keys they fill
ListInputs ==
    { <<"recipient_list", "recipientList">>, <<"sender_list", "senderList">>,
      <<"recipient_addresses", "recipientAddresses">>,
      <<"sender_addresses", "senderAddresses">> }

\* The pieces of a string between its commas, each without surrounding whitespace
Pieces(s) ==
    PList([i \in 1..Len(Split(s.v, ",")) |-> PStr(Strip(Split(s.v, ",")[i], Whitespace))])

\* The caller's parameters with every string-valued list input given as the
\* equivalent array
WithArrays ==
    [k \in DOMAIN param |->
        IF (\E e \in ListInputs : e[1] = k) /\ param[k].ty = "str" THEN Pieces(param[k])
        ELSE param[k]]

\* C15: in the payload of a list-entry request a string-valued list input appears
\* as the list of its comma-separated pieces with surrounding whitespace removed,
\* which is the payload the operation builds when the equivalent array is passed
\* instead; an array input appears in the payload unchanged.
C15_StringEqualsArray ==
    (action \in ListEntryActions /\ http_log # <<>>) =>
        /\ \A e \in ListInputs :
              (e[1] \in DOMAIN param /\ e[2] \in DOMAIN http_log[1].json.v) =>
                  http_log[1].json.v[e[2]] =
                      (IF param[e[1]].ty = "str" THEN Pieces(param[e[1]]) ELSE param[e[1]])
        /\ _list_entry_operation_setup(
               WithArrays,
               CASE action = "add_list_entry" -> "add"
                 [] action = "edit_list_entry" -> "edit"
                 [] OTHER -> "delete").payload = http_log[1].json

\* C15 happens: "a@x.com, b@x.com" was given as a string and sent as [a@x.com, b@x.com]
C15_Witness ==
    /\ action = "add_list_entry"
    /\ MapGet(param, "recipient_addresses", None) = PStr(<<"a@x.com", ",", " ", "b@x.com">>)
    /\ Len(http_log) = 1
    /\ http_log[1].json.v["recipientAddresses"] = PList(<<PS("a@x.com"), PS("b@x.com")>>)

----------------------------------------------------------------------------
(* Repeating a read operation *)

ReadActions ==
    {"search_spam_quarantine_messages", "search_general_quarantine_messages",
     "search_tracking_messages", "search_list", "get_spam_quarantine_message_details",
     "get_general_quarantine_message_details", "get_message_tracking_details"}

\* status, data and summary of the envelopes
Envelopes(results) ==
    [i \in 1..Len(results) |->
        [status |-> results[i].status, data |-> results[i].data,
         summary |-> results[i].summary]]

\* h is a second invocation: it ends as the one in the state did, with the same
\* envelope and the same request
SameAsFirst(h) ==
    /\ h.ret = ret
    /\ h.exc = exc
    /\ Envelopes(h.results) = Envelopes(action_results)
    /\ h.sent = http_log
    /\ h.param = param

\* C16: after a search, list or details operation, invoking it again on the instance
\* and the parameter dictionary as the first invocation left them, against a remote
\* that answers as before, ends the same way with the same envelope status, data and
\* summary and sends the same request: nothing the first invocation left in the
\* connector fields or in the caller's parameters changes the second.
C16_ReadIdempotent ==
    action \in ReadActions =>
        \A remote \in Remotes :
            (http_log = <<>> \/ http_log[1].remote = remote) =>
                SameAsFirst(handle_action(action, param, remote, "succeeded"))

\* C16 happens: get_message_tracking_details wrote the formatted dates into the
\* caller's parameters and sent its request
C16_Witness ==
    /\ action = "get_message_tracking_details"
    /\ MapGet(param, "start_date", None) =
           PStr(<<"2024-01-15", "T", "10", ":", "30", ":", "00", ".000Z">>)
    /\ Len(http_log) = 1
    /\ ret = APP_SUCCESS

----------------------------------------------------------------------------
(* Release and delete of quarantined messages *)

ReleaseActions == {"release_spam_message", "release_general_quarantine_message"}
DeleteActions == {"delete_spam_message", "delete_general_quarantine_message"}

\* The identifiers the request of the last call submitted
SubmittedMids == http_log[1].json.v["mids"].v

\* The remote answered with data.totalCount equal to the number of identifiers submitted
FullyHonoured ==
    /\ http_log[1].payload.ty = "dict"
    /\ "data" \in DOMAIN http_log[1].payload.v
    /\ http_log[1].payload.v["data"].ty = "dict"
    /\ "totalCount" \in DOMAIN http_log[1].payload.v["data"].v
    /\ http_log[1].payload.v["data"].v["totalCount"] = PInt(Len(SubmittedMids))

\* C17: a release or delete message operation that succeeded submitted exactly one
\* identifier, the integer value of message_id, and when the remote reported that
\* number as totalCount the summary's total_released (release) or total_deleted
\* (delete) equals the number of identifiers submitted.
C17_TotalEqualsSubmitted ==
    (action \in ReleaseActions \cup DeleteActions /\ ret = APP_SUCCESS) =>
        /\ Len(http_log) = 1
        /\ SubmittedMids = <<PyInt(param["message_id"]).value>>
        /\ FullyHonoured =>
              action_results[1].summary[IF action \in ReleaseActions THEN "total_released"
                                        ELSE "total_deleted"]
                  = PInt(Len(SubmittedMids))

\* C17 happens: message 123 was released, the remote reported one message, and the
\* summary counts one
C17_Witness ==
    /\ action = "release_spam_message"
    /\ ret = APP_SUCCESS
    /\ SubmittedMids = <<PInt(123)>>
    /\ FullyHonoured
    /\ action_results[1].summary["total_released"] = PInt(1)

----------------------------------------------------------------------------
(* Required parameters *)

DateRangedActions ==
    {"search_spam_quarantine_messages", "search_general_quarantine_messages",
     "search_tracking_messages", "get_statistics_report"}

\* The parameter is not given, or given with an empty value
MissingOrEmpty(name) ==
    \/ name \notin DOMAIN param
    \/ param[name].ty = "NoneType"
    \/ param[name].ty \in {"str", "list"} /\ param[name].v = <<>>

\* C18: a date-ranged action (spam quarantine search, general quarantine search,
\* tracking search, statistics report) whose start_date or end_date is missing or
\* empty returns APP_ERROR with the message "Both 'start_date' and 'end_date'
\* parameters are required" and issues no HTTP request, whatever its other
\* parameters are.
C18_DatesRequired ==
    (/\ action \in DateRangedActions
     /\ MissingOrEmpty("start_date") \/ MissingOrEmpty("end_date")) =>
        /\ exc = "none"
        /\ ret = APP_ERROR
        /\ Len(action_results) = 1
        /\ action_results[1].status = APP_ERROR
        /\ action_results[1].message =
               <<"Both 'start_date' and 'end_date' parameters are required">>
        /\ http_log = <<>>

\* C18 happens: a statistics report with an empty start_date and an end_date that
\* is no date was refused for the missing date
C18_Witness ==
    /\ action = "get_statistics_report"
    /\ MapGet(param, "start_date", None) = PStr(<<>>)
    /\ MapGet(param, "end_date", None) = BadDate
    /\ ret = APP_ERROR
    /\ http_log = <<>>

MessageIdActions ==
    {"get_spam_quarantine_message_details", "get_general_quarantine_message_details",
     "get_message_tracking_details", "download_attachment"}
    \cup ReleaseActions \cup DeleteActions

\* C19 as stated: in every action that takes a message_id, a message_id that is
\* missing or is not an integer ends the operation with an error that names
\* 'message_id', and no HTTP request is issued.
C19_MessageIdChecked ==
    (/\ action \in MessageIdActions
     /\ MissingOrEmpty("message_id") \/ ~PyInt(param["message_id"]).ok) =>
        /\ ret = APP_ERROR
        /\ Len(action_results) = 1
        /\ action_results[1].message[1] \in
               {"Parameter 'message_id' is required",
                "Parameter 'message_id' must be a valid integer"}
        /\ http_log = <<>>

----------------------------------------------------------------------------
(* The file name of a downloaded attachment *)

\* The characters a file name must not hold (each is a token of its own in the
\* strings of the model)
ForbiddenInFileName == {",", "\"", "'"}

\* The tokens after the last occurrence of marker
After(toks, marker) ==
    SubSeq(toks,
           (CHOOSE k \in 1..Len(toks) :
                toks[k] = marker /\ \A j \in (k + 1)..Len(toks) : toks[j] # marker) + 1,
           Len(toks))

\* The file name a Content-Disposition value gives: what follows filename=, without
\* surrounding double quotes; else what follows filename*= and its '' separator;
\* else nothing
NameInHeader(cd) ==
    IF \E k \in 1..Len(cd) : cd[k] = "filename=" THEN Strip(After(cd, "filename="), {"\""})
    ELSE IF \E k \in 1..Len(cd) : cd[k] = "filename*=" THEN
        (IF \E k \in 1..Len(After(cd, "filename*=")) : After(cd, "filename*=")[k] = "''"
         THEN After(After(cd, "filename*="), "''") ELSE After(cd, "filename*="))
    ELSE <<>>

\* The name recovered for a response and a default, before it is sanitized
RecoveredName(response, default) ==
    IF NameInHeader(MapGet(response.v.headers, "Content-Disposition", PStr(<<>>)).v) # <<>>
    THEN NameInHeader(MapGet(response.v.headers, "Content-Disposition", PStr(<<>>)).v)
    ELSE IF default # <<>> THEN default
    ELSE <<"unknown_file">>

\* C20: the file name of a downloaded attachment is the value after 'filename=' in
\* Content-Disposition, else the value after 'filename*=', else the default
\* attachment_<message_id>_<attachment_id>, else 'unknown_file', with every comma,
\* double quote and single quote removed; that sanitized name is the one handed to
\* the vault and, on success, the one in the envelope's data and summary, and it
\* holds no comma, double quote or single quote.
C20_FileName ==
    /\ (action = "download_attachment" /\ vault_log # <<>>) =>
          /\ Len(vault_log) = 1
          /\ vault_log[1].file_name.v =
                SelectSeq(RecoveredName(http_log[1].payload,
                                        <<"attachment_">> \o Format(param["message_id"])
                                            \o <<"_">> \o Format(param["attachment_id"])),
                          LAMBDA c : c \notin ForbiddenInFileName)
          /\ \A i \in 1..Len(vault_log[1].file_name.v) :
                vault_log[1].file_name.v[i] \notin ForbiddenInFileName
          /\ ret = APP_SUCCESS =>
                /\ action_results[1].data[1].v["filename"] = vault_log[1].file_name
                /\ action_results[1].summary["filename"] = vault_log[1].file_name
    /\ (action = "download_attachment" /\ ret = APP_SUCCESS) => vault_log # <<>>
    /\ \A response \in Responses :
          \A default \in {None, PStr(<<>>), PStr(<<"x", ",", "y">>)} :
              _download_to_vault(ActionResult, response, default, "succeeded").filename.v =
                  SelectSeq(RecoveredName(response, IF default = None THEN <<>> ELSE default.v),
                            LAMBDA c : c \notin ForbiddenInFileName)

\* C20 happens: the quoted header name a,b.txt was stored and reported as ab.txt
C20_Witness ==
    /\ action = "download_attachment"
    /\ ret = APP_SUCCESS
    /\ MapGet(http_log[1].payload.v.headers, "Content-Disposition", None) =
           PStr(<<"attachment; ", "filename=", "\"", "a", ",", "b.txt", "\"">>)
    /\ vault_log[1].file_name = PStr(<<"a", "b.txt">>)
    /\ action_results[1].summary["filename"] = PStr(<<"a", "b.txt">>)

----------------------------------------------------------------------------
(* Mapping the response into the envelope *)

\* The actions whose handlers map the payload in a try block that reports
\* "Error parsing response"
MappingActions == SupportedActions \ {"test_connectivity", "download_attachment"}

\* The request of the last call was answered with status 200 and _make_rest_call
\* returned its payload
Answered == http_log # <<>> /\ ~is_fail(http_log[1].ret_val)

\* The payload is not a mapping, or has no "data" field
NoData ==
    \/ http_log[1].payload.ty # "dict"
    \/ "data" \notin DOMAIN http_log[1].payload.v

\* The operation returned the error of the try block of the response mapping
ParsingError ==
    /\ exc = "none"
    /\ ret = APP_ERROR
    /\ Len(action_results) = 1
    /\ action_results[1].status = APP_ERROR
    /\ action_results[1].message[1] = "Error parsing response: {}"

\* C21 as stated: whenever the request succeeded and the payload is not a mapping or
\* lacks its data field, the handler returns an error status with a parsing-error
\* message.
C21_ShapeErrorsReported ==
    (action \in MappingActions /\ Answered /\ NoData) => ParsingError

\* C21, amended: after an answered request no exception leaves a handler. A payload
\* that is not a mapping, and an empty quarantineDetails list in the general
\* quarantine details, end in the returned parsing error; every error returned
\* after the answer is the parsing error or, in download_attachment, one of its own
\* messages. A mapping without "data" is read with the defaults of the handler and
\* the operation succeeds.
C21_ShapeErrorsNeverRaise ==
    (action \in SupportedActions /\ Answered) =>
        /\ exc = "none"
        /\ ret \in {APP_SUCCESS, APP_ERROR}
        /\ Len(action_results) = 1
        /\ action_results[1].status = ret
        /\ (action \in MappingActions /\ http_log[1].payload.ty # "dict") => ParsingError
        /\ (action = "get_general_quarantine_message_details"
            /\ http_log[1].remote.response.v.text = BodyNoDetails) => ParsingError
        /\ (action \in MappingActions /\ ret = APP_ERROR) => ParsingError
        /\ (action \in MappingActions /\ http_log[1].payload.ty = "dict"
            /\ "data" \notin DOMAIN http_log[1].payload.v) => ret = APP_SUCCESS

\* C21 happens: the general quarantine details got an empty quarantineDetails list
\* and returned the parsing error for the IndexError
C21_Witness ==
    /\ action = "get_general_quarantine_message_details"
    /\ Answered
    /\ http_log[1].remote.response.v.text = BodyNoDetails
    /\ ParsingError
    /\ action_results[1].message = <<"Error parsing response: {}", PS("IndexError")>>

----------------------------------------------------------------------------
(* Success, data and summary of the envelope *)

\* C22: an envelope ends with success status, and a supported action returns
\* success, only if exactly one HTTP request was issued during the action and its
\* response had status code 200: never after a transport failure, after a response
\* with another status, or with no request at all.
C22_SuccessNeedsOk ==
    /\ \A i \in 1..Len(action_results) :
          action_results[i].status = APP_SUCCESS =>
              /\ Len(http_log) = 1
              /\ http_log[1].remote.kind = "response"
              /\ http_log[1].remote.response.v.status_code = 200
    /\ (action \in SupportedActions /\ ret = APP_SUCCESS) =>
              /\ Len(action_results) = 1
              /\ action_results[1].status = APP_SUCCESS
              /\ Len(http_log) = 1
              /\ http_log[1].remote.kind = "response"
              /\ http_log[1].remote.response.v.status_code = 200

\* C22 happens: release_spam_message reports success after its one request was
\* answered with status 200
C22_Witness ==
    /\ action = "release_spam_message"
    /\ ret = APP_SUCCESS
    /\ action_results[1].status = APP_SUCCESS
    /\ Len(http_log) = 1
    /\ http_log[1].remote.response.v.status_code = 200

\* C23 as stated: whenever an operation ended with error status its envelope holds
\* no data item and no summary entry.
C23_ErrorEnvelopeEmpty ==
    \A i \in 1..Len(action_results) :
        (action \in SupportedActions /\ action_results[i].status = APP_ERROR) =>
            /\ action_results[i].data = <<>>
            /\ DOMAIN action_results[i].summary = {}

----------------------------------------------------------------------------
(* The vault and the temporary directory *)

\* download_attachment was answered with status 200 and a JSON content type
JsonAnswer ==
    /\ action = "download_attachment"
    /\ http_log # <<>>
    /\ http_log[1].remote.kind = "response"
    /\ http_log[1].remote.response.v.status_code = 200
    /\ Contains(<<"application/json">>,
                Lower(MapGet(http_log[1].remote.response.v.headers, "Content-Type",
                             PStr(<<>>)).v))

\* download_attachment was answered with status 200 and another content type, or none
OtherAnswer ==
    /\ action = "download_attachment"
    /\ http_log # <<>>
    /\ http_log[1].remote.kind = "response"
    /\ http_log[1].remote.response.v.status_code = 200
    /\ ~Contains(<<"application/json">>,
                 Lower(MapGet(http_log[1].remote.response.v.headers, "Content-Type",
                              PStr(<<>>)).v))

\* C24: a download_attachment answered with status 200 and a JSON content type ends
\* with error status, calls the vault not at all and creates no temporary file; a
\* step calls the vault or creates a temporary file only for a download answered
\* with status 200 and a content type that is not JSON.
C24_JsonNeverStored ==
    [][/\ JsonAnswer' =>
            /\ ret' = APP_ERROR
            /\ action_results'[1].status = APP_ERROR
            /\ vault_log' = <<>>
            /\ tmp_files' = tmp_files
       /\ (vault_log' # <<>> \/ tmp_files' # tmp_files) => OtherAnswer']_vars

\* C24 happens: a 200 answer with a JSON content type ended the download with an
\* error and nothing in the vault
C24_Witness ==
    /\ JsonAnswer
    /\ ret = APP_ERROR
    /\ vault_log = <<>>

\* C25 as stated: every temporary file that _download_to_vault created has been
\* deleted when the function returns, so after any sequence of download_attachment
\* operations no temporary file of the connector remains.
C25_NoTempFileRemains ==
    tmp_files = {}

----------------------------------------------------------------------------
(* Properties of the tracking filters and of the list search *)

\* filter_pairs: (op_param, val_param, op_name, val_name)
FilterPairs ==
    { <<"sender_filter_operator", "sender_filter_value",
        "envelopeSenderfilterOperator", "envelopeSenderfilterValue">>,
      <<"recipient_filter_operator", "recipient_filter_value",
        "envelopeRecipientfilterOperator", "envelopeRecipientfilterValue">>,
      <<"subject_filter_operator", "subject_filter_value",
        "subjectfilterOperator", "subjectfilterValue">>,
      <<"attachment_name_operator", "attachment_name_value",
        "attachmentNameOperator", "attachmentNameValue">> }

\* the caller gave the parameter a non-empty value
Supplied(name) == ~MissingOrEmpty(name)

\* the query of every request of the operation treats the pair as a whole
WholeInQuery(pair) ==
    \A i \in 1..Len(http_log) :
        /\ pair[3] \in DOMAIN http_log[i].params.v <=> pair[4] \in DOMAIN http_log[i].params.v
        /\ (Supplied(pair[1]) /\ Supplied(pair[2])) =>
                /\ pair[3] \in DOMAIN http_log[i].params.v
                /\ http_log[i].params.v[pair[3]] = param[pair[1]]
                /\ http_log[i].params.v[pair[4]] = param[pair[2]]
        /\ (~Supplied(pair[1]) /\ ~Supplied(pair[2])) =>
                pair[3] \notin DOMAIN http_log[i].params.v

\* the operation ended with an error: the handler returned APP_ERROR in its envelope,
\* or an exception ended it before it returned
EndedWithError ==
    IF exc = "none" THEN ret = APP_ERROR /\ action_results[1].status = APP_ERROR
    ELSE ret = "NO_RETURN"

\* C26: in search_tracking_messages, a filter of which exactly one of operator and
\* value is supplied ends the operation with an error and no HTTP request; a filter
\* of which both are supplied has both in the query, one of which neither is
\* supplied has neither, and no query holds an operator without its value or a
\* value without its operator.
C26_FilterAllOrNothing ==
    action = "search_tracking_messages" =>
        \A pair \in FilterPairs :
            /\ (Supplied(pair[1]) # Supplied(pair[2])) =>
                    /\ EndedWithError
                    /\ http_log = <<>>
            /\ WholeInQuery(pair)

\* C26 happens: an attachment-name value without its operator was refused with the
\* error of the pair, before any request
C26_Witness ==
    /\ action = "search_tracking_messages"
    /\ Supplied("attachment_name_value") /\ ~Supplied("attachment_name_operator")
    /\ ret = APP_ERROR
    /\ action_results[1].message =
            <<"Both {} and {} must be provided together",
              PS("attachment_name_operator"), PS("attachment_name_value")>>
    /\ http_log = <<>>

\* order_by as the caller gave it, with its default
GivenOrderBy == MapGet(param, "order_by", PS("recipient"))

\* C27: in search_list a non-empty 'search' with an order_by other than 'recipient'
\* ends the operation with an error and no HTTP request; a request carries a
\* 'search' key only with orderBy 'recipient', the key then holds the caller's
\* non-empty 'search', and a request made for a caller who gave one carries it.
C27_SearchOnlyByRecipient ==
    action = "search_list" =>
        /\ (Supplied("search") /\ GivenOrderBy # PS("recipient")) =>
                /\ EndedWithError
                /\ http_log = <<>>
        /\ \A i \in 1..Len(http_log) :
                /\ "search" \in DOMAIN http_log[i].params.v <=> Supplied("search")
                /\ "search" \in DOMAIN http_log[i].params.v =>
                        /\ http_log[i].params.v["orderBy"] = PS("recipient")
                        /\ http_log[i].params.v["search"] = param["search"]

\* C27 happens: a search ordered by sender was refused before any request
C27_Witness ==
    /\ action = "search_list"
    /\ Supplied("search")
    /\ GivenOrderBy = PS("sender")
    /\ ret = APP_ERROR
    /\ action_results[1].message =
            <<"Search parameter is only supported when order_by is set to 'recipient'">>
    /\ http_log = <<>>

----------------------------------------------------------------------------
(* Properties of the dispatcher *)

\* action_mapping[action](param): the handler of each supported identifier
action_mapping(action_id, p, remote, behaviour) ==
    CASE action_id = "test_connectivity" -> _handle_test_connectivity(p, remote)
      [] action_id = "search_spam_quarantine_messages" ->
            _handle_search_spam_quarantine_messages(p, remote)
      [] action_id = "search_general_quarantine_messages" ->
            _handle_search_general_quarantine_messages(p, remote)
      [] action_id = "search_tracking_messages" -> _handle_search_tracking_messages(p, remote)
      [] action_id = "get_spam_quarantine_message_details" ->
            _handle_get_spam_quarantine_message_details(p, remote)
      [] action_id = "get_general_quarantine_message_details" ->
            _handle_get_general_quarantine_message_details(p, remote)
      [] action_id = "get_message_tracking_details" ->
            _handle_get_message_tracking_details(p, remote)
      [] action_id = "release_spam_message" -> _handle_release_spam_message(p, remote)
      [] action_id = "release_general_quarantine_message" ->
            _handle_release_general_quarantine_message(p, remote)
      [] action_id = "delete_spam_message" -> _handle_delete_spam_message(p, remote)
      [] action_id = "delete_general_quarantine_message" ->
            _handle_delete_general_quarantine_message(p, remote)
      [] action_id = "search_list" -> _handle_search_list(p, remote)
      [] action_id = "add_list_entry" -> _handle_add_list_entry(p, remote)
      [] action_id = "edit_list_entry" -> _handle_edit_list_entry(p, remote)
      [] action_id = "delete_list_entry" -> _handle_delete_list_entry(p, remote)
      [] action_id = "get_statistics_report" -> _handle_get_statistics_report(p, remote)
      [] action_id = "download_attachment" -> _handle_download_attachment(p, remote, behaviour)

\* what the remote did in the operation; when no request was sent the handler
\* never looked at it
RemoteSeen ==
    IF http_log # <<>> THEN http_log[1].remote
    ELSE [kind |-> "raise", response |-> None, exception |-> "Timeout"]

\* the state is the one the handler outcome h leaves
LeftBy(h) ==
    /\ ret = h.ret
    /\ exc = h.exc
    /\ action_results = h.results
    /\ http_log = h.sent
    /\ param = h.param
    /\ Len(vault_log) = Len(h.vault)

\* C28: for each of the 17 supported identifiers the state after handle_action is
\* the one its mapped handler leaves, with the one envelope of that handler, and
\* the status handle_action returns is the status the handler returned in it; for
\* any other identifier there is no envelope, no HTTP request, no vault call, and
\* handle_action returns success.
C28_Dispatch ==
    /\ action \in SupportedActions =>
            /\ \E behaviour \in VaultBehaviours :
                    LeftBy(action_mapping(action, param, RemoteSeen, behaviour))
            /\ Len(action_results) = 1
            /\ exc = "none" => ret = action_results[1].status
    /\ action \notin SupportedActions \cup {"none"} =>
            /\ ret = APP_SUCCESS
            /\ exc = "none"
            /\ action_results = <<>>
            /\ http_log = <<>>
            /\ vault_log = <<>>

\* C28 happens: edit_list_entry was dispatched and returned the status of its
\* handler after one request
C28_Witness ==
    /\ action = "edit_list_entry"
    /\ Len(action_results) = 1
    /\ Len(http_log) = 1
    /\ ret = APP_SUCCESS
    /\ ret = action_results[1].status

====
